---- MODULE Spec2Model ----
(***************************************************************************)
(* A model of the t2z Go bindings (package t2z): the PCZT wrapper with its *)
(* native handle, the API operations, and the native library they          *)
(* call through CGO.  The wrapper code (nil checks, consumeHandle, newPCZT,*)
(* Free, the finalizer, error wrapping) is translated from the Go source.  *)
(* The native library (libt2z) is a binary of which only the C header and  *)
(* the callers are in the sources; its pczt_ functions are modelled        *)
(* from the specification and the header's documentation.                  *)
(***************************************************************************)
EXTENDS Integers, Sequences, FiniteSets, TLC

(***************************************************************************)
(* Bounds of the model.                                                    *)
(***************************************************************************)
MaxWrappers == 3        \* Go *PCZT objects the caller holds at once
MaxHandles  == 2        \* native PcztHandle allocations alive at once
MaxCount    == 5        \* the largest count handed to CalculateFee

(***************************************************************************)
(* Program constants.                                                      *)
(***************************************************************************)
ZIP317_MARGINAL_FEE  == 5000
ZIP317_GRACE_ACTIONS == 2

NULL == 0               \* a nil *C.PcztHandle, and a nil *PCZT argument

Wrappers == 1..MaxWrappers
Handles  == 1..MaxHandles

(***************************************************************************)
(* ResultCode, with the names ResultCode.String() gives.                   *)
(***************************************************************************)
Success           == "Success"
ErrorNullPointer  == "ErrorNullPointer"
ErrorProposal     == "ErrorProposal"
ErrorProver       == "ErrorProver"
ErrorVerification == "ErrorVerification"
ErrorSighash      == "ErrorSighash"
ErrorSignature    == "ErrorSignature"
ErrorCombine      == "ErrorCombine"
ErrorFinalization == "ErrorFinalization"
ErrorParse        == "ErrorParse"

\* The errors the wrapper makes itself with errors.New / fmt.Errorf.
ErrInvalidPCZT    == "invalid PCZT"
ErrInvalidRequest == "invalid transaction request"
ErrNoInputs       == "at least one input is required"
ErrNoPCZTs        == "at least one PCZT is required"
ErrEmptyBytes     == "empty PCZT bytes"
ErrNoPayments     == "at least one payment is required"

(***************************************************************************)
(* Data: addresses, scripts, keys.  An address is a string; a script is a  *)
(* short byte sequence.                                                    *)
(***************************************************************************)
Transparent == {"tA", "tB", "tSelf"}   \* "tSelf" is the address of public key 1
Shielded    == {"uS"}                  \* a unified address with an Orchard receiver
\* Every other string ("bad") is no address.

Keys   == {1, 2}        \* public keys; key k is the key pair k
Nonces == {1, 2}        \* ECDSA nonces: two valid signatures exist per (key, digest)

IsShielded(addr)    == addr \in Shielded
IsTransparent(addr) == addr \in Transparent

AddrCode(addr) ==
  CASE addr = "tA" -> 101 [] addr = "tB" -> 102 [] addr = "tSelf" -> 201
    [] addr = "uS" -> 301 [] OTHER -> 0

PubkeyScript(k) == <<118, 200 + k>>                 \* P2PKH script of a public key
AddrScript(addr) == <<118, AddrCode(addr)>>          \* script of a transparent address

NoSig   == [key |-> 0, nonce |-> 0, msg |-> <<>>]    \* an empty signature slot
ZeroSig == [key |-> 0, nonce |-> 0, msg |-> <<0>>]   \* the all-zero [64]byte
Sign(k, msg, n) == [key |-> k, nonce |-> n, msg |-> msg]

NoDoc == [kind |-> "free"]

RECURSIVE SumAmount(_)
SumAmount(s) == IF s = <<>> THEN 0 ELSE Head(s).amount + SumAmount(Tail(s))

RECURSIVE SumValue(_)
SumValue(s) == IF s = <<>> THEN 0 ELSE Head(s).value + SumValue(Tail(s))

Max(a, b) == IF a >= b THEN a ELSE b

(***************************************************************************)
(* serializeTransparentInputs: the binary form of the input list handed to *)
(* the native builder.  One sequence element stands for one fixed-width    *)
(* field (33-byte key, 32-byte txid, u32 vout, u64 amount); the two u16    *)
(* length fields are truncated as uint16(len(..)) truncates them.          *)
(***************************************************************************)
U16(n) == n % 65536

serializeInput(input) ==
  <<input.pubkey, input.txid, input.vout, input.amount, U16(Len(input.script))>>
    \o input.script

RECURSIVE serializeInputList(_)
serializeInputList(inputs) ==
  IF inputs = <<>> THEN <<>>
  ELSE serializeInput(Head(inputs)) \o serializeInputList(Tail(inputs))

\* a serialization whose loop stops one input early
serializeTransparentInputs_DropLast(inputs) ==
  <<U16(Len(inputs) - 1)>> \o serializeInputList(SubSeq(inputs, 1, Len(inputs) - 1))

serializeTransparentInputs(inputs) ==
  <<U16(Len(inputs))>> \o serializeInputList(inputs)

(***************************************************************************)
(* The native library: readers of its binary formats.  A reader returns    *)
(* [ok, pos, val]: whether it could read, the position after what it read, *)
(* and the value.                                                          *)
(***************************************************************************)
ReadFail == [ok |-> FALSE, pos |-> 0, val |-> <<>>]

ReadBytes(b, p, n) ==
  IF p + n - 1 > Len(b) THEN ReadFail
  ELSE [ok |-> TRUE, pos |-> p + n, val |-> SubSeq(b, p, p + n - 1)]

\* a length-prefixed byte string
ReadVar(b, p) ==
  IF p > Len(b) THEN ReadFail ELSE ReadBytes(b, p + 1, b[p])

ReadInput(b, p) ==
  LET f == ReadBytes(b, p, 4)
      s == IF f.ok THEN ReadVar(b, f.pos) ELSE ReadFail
  IN IF ~s.ok THEN ReadFail
     ELSE [ok |-> TRUE, pos |-> s.pos,
           val |-> [pubkey |-> f.val[1], txid |-> f.val[2], vout |-> f.val[3],
                    amount |-> f.val[4], script |-> s.val]]

ReadOutput(b, p) ==
  LET s == ReadVar(b, p)
      v == IF s.ok THEN ReadBytes(b, s.pos, 1) ELSE ReadFail
  IN IF ~v.ok THEN ReadFail
     ELSE [ok |-> TRUE, pos |-> v.pos, val |-> [script |-> s.val, value |-> v.val[1]]]

ReadAction(b, p) ==
  LET f == ReadBytes(b, p, 3)
  IN IF ~f.ok \/ f.val[3] \notin {0, 1} THEN ReadFail
     ELSE [ok |-> TRUE, pos |-> f.pos,
           val |-> [recipient |-> f.val[1], value |-> f.val[2], proof |-> f.val[3] = 1]]

ReadSig(b, p) ==
  LET t == ReadBytes(b, p, 1)
  IN IF ~t.ok THEN ReadFail
     ELSE IF t.val[1] = 0 THEN [ok |-> TRUE, pos |-> t.pos, val |-> NoSig]
     ELSE IF t.val[1] # 1 THEN ReadFail
     ELSE LET f == ReadBytes(b, t.pos, 2)
              m == IF f.ok THEN ReadVar(b, f.pos) ELSE ReadFail
          IN IF ~m.ok THEN ReadFail
             ELSE [ok |-> TRUE, pos |-> m.pos,
                   val |-> [key |-> f.val[1], nonce |-> f.val[2], msg |-> m.val]]

ReadOne(kind, b, p) ==
  CASE kind = "input"  -> ReadInput(b, p)
    [] kind = "output" -> ReadOutput(b, p)
    [] kind = "action" -> ReadAction(b, p)
    [] OTHER           -> ReadSig(b, p)

RECURSIVE ReadMany(_, _, _, _)
ReadMany(kind, b, p, n) ==
  IF n = 0 THEN [ok |-> TRUE, pos |-> p, val |-> <<>>]
  ELSE LET x == ReadOne(kind, b, p)
           r == IF x.ok THEN ReadMany(kind, b, x.pos, n - 1) ELSE ReadFail
       IN IF ~r.ok THEN ReadFail
          ELSE [ok |-> TRUE, pos |-> r.pos, val |-> <<x.val>> \o r.val]

\* The builder's reading of the input bytes: the u16 count, then the records.
DecodeInputs(b) ==
  IF Len(b) < 1 THEN ReadFail ELSE ReadMany("input", b, 2, b[1])

(***************************************************************************)
(* The native library: the fee (ZIP-317, as the documentation of           *)
(* CalculateFee and of pczt_calculate_fee give it: (1,2,0) costs 10000 and *)
(* (1,1,1) costs 15000).                                                   *)
(***************************************************************************)
OrchardActions(numOrchardOutputs) ==
  IF numOrchardOutputs = 0 THEN 0 ELSE Max(2, numOrchardOutputs)

pczt_calculate_fee(numTransparentInputs, numTransparentOutputs, numOrchardOutputs) ==
  ZIP317_MARGINAL_FEE *
    Max(ZIP317_GRACE_ACTIONS,
        Max(numTransparentInputs, numTransparentOutputs) + OrchardActions(numOrchardOutputs))

(***************************************************************************)
(* The native library: the document (PCZT) and the builder.                *)
(*   ins   the inputs spent        outs  the transparent outputs           *)
(*   acts  the Orchard actions     sigs  one signature slot per input      *)
(***************************************************************************)
BranchId(height, mainnet) ==
  (IF mainnet THEN 10 ELSE 20) + (IF height >= 1687104 THEN 5 ELSE 4)

PaymentIsTransparent(p) == IsTransparent(p.address)
PaymentIsShielded(p)    == IsShielded(p.address)

RECURSIVE PaymentOutputs(_)
PaymentOutputs(ps) ==
  IF ps = <<>> THEN <<>>
  ELSE (IF PaymentIsTransparent(Head(ps))
        THEN <<[script |-> AddrScript(Head(ps).address), value |-> Head(ps).amount]>>
        ELSE <<>>) \o PaymentOutputs(Tail(ps))

RECURSIVE PaymentActions(_)
PaymentActions(ps) ==
  IF ps = <<>> THEN <<>>
  ELSE (IF PaymentIsShielded(Head(ps))
        THEN <<[recipient |-> AddrCode(Head(ps).address), value |-> Head(ps).amount,
                proof |-> FALSE]>>
        ELSE <<>>) \o PaymentActions(Tail(ps))

RequestMalformed(payments) ==
  \/ payments = <<>>
  \/ \E i \in 1..Len(payments) :
       \/ payments[i].amount = 0
       \/ ~(IsTransparent(payments[i].address) \/ IsShielded(payments[i].address))

NativeFail(code, detail) == [code |-> code, detail |-> detail, doc |-> NoDoc, val |-> <<>>]
NativeDoc(doc)           == [code |-> Success, detail |-> "", doc |-> doc, val |-> <<>>]
NativeVal(val)           == [code |-> Success, detail |-> "", doc |-> NoDoc, val |-> val]

pczt_propose_transaction(inputsBytes, req, changeAddress) ==
  LET dec     == DecodeInputs(inputsBytes)
      ins     == dec.val
      pays    == req.payments
      outs    == PaymentOutputs(pays)
      acts    == PaymentActions(pays)
      fee     == pczt_calculate_fee(Len(ins), Len(outs) + 1, Len(acts))
      total   == SumAmount(ins)
      change  == total - SumAmount(pays) - fee
      cscript == IF changeAddress = "" THEN PubkeyScript(ins[1].pubkey)
                 ELSE AddrScript(changeAddress)
  IN IF ~dec.ok \/ ins = <<>> THEN NativeFail(ErrorProposal, "InvalidInputs")
     ELSE IF RequestMalformed(pays) THEN NativeFail(ErrorProposal, "InvalidRequest")
     ELSE IF changeAddress # "" /\ ~IsTransparent(changeAddress)
          THEN NativeFail(ErrorProposal, "InvalidRequest")
     ELSE IF change < 0 THEN NativeFail(ErrorProposal, "InsufficientFunds")
     ELSE NativeDoc([kind   |-> "pczt",
                     ins    |-> ins,
                     outs   |-> IF change > 0
                                THEN outs \o <<[script |-> cscript, value |-> change]>>
                                ELSE outs,
                     acts   |-> acts,
                     sigs   |-> [i \in 1..Len(ins) |-> NoSig],
                     proved |-> FALSE,
                     branch |-> BranchId(req.height, req.mainnet)])

(***************************************************************************)
(* The native library: the prover.  proverOk is the outcome of the         *)
(* external proving capability; with no Orchard action it is not used.     *)
(***************************************************************************)
pczt_prove_transaction(doc, proverOk) ==
  IF doc.acts # <<>> /\ ~proverOk THEN NativeFail(ErrorProver, "ProvingError")
  ELSE NativeDoc([doc EXCEPT !.proved = TRUE,
                             !.acts = [i \in 1..Len(doc.acts) |->
                                         [doc.acts[i] EXCEPT !.proof = TRUE]]])

(***************************************************************************)
(* The native library: the sighash of an input and the signature check.    *)
(* The digest commits to the inputs, the outputs, the actions' recipients  *)
(* and values and the consensus branch, not to signatures or proofs.       *)
(***************************************************************************)
RECURSIVE FlattenOutputs(_)
FlattenOutputs(outs) ==
  IF outs = <<>> THEN <<>>
  ELSE <<Len(Head(outs).script)>> \o Head(outs).script \o <<Head(outs).value>>
         \o FlattenOutputs(Tail(outs))

RECURSIVE FlattenActions(_)
FlattenActions(acts) ==
  IF acts = <<>> THEN <<>>
  ELSE <<Head(acts).recipient, Head(acts).value>> \o FlattenActions(Tail(acts))

Digest(doc, inputIndex) ==
  <<inputIndex, doc.branch, Len(doc.ins), Len(doc.outs)>>
    \o serializeInputList(doc.ins) \o FlattenOutputs(doc.outs) \o FlattenActions(doc.acts)

pczt_get_sighash(doc, inputIndex) ==
  IF inputIndex >= Len(doc.ins) THEN NativeFail(ErrorSighash, "IndexOutOfRange")
  ELSE NativeVal(Digest(doc, inputIndex))

\* a check of the signature against the sighash alone, whoever signed
SignatureValid_AnyKey(doc, inputIndex, signature) ==
  /\ signature.nonce \in Nonces
  /\ signature.msg = Digest(doc, inputIndex)

SignatureValid(doc, inputIndex, signature) ==
  /\ signature.key = doc.ins[inputIndex + 1].pubkey
  /\ signature.nonce \in Nonces
  /\ signature.msg = Digest(doc, inputIndex)

pczt_append_signature(doc, inputIndex, signature) ==
  IF inputIndex >= Len(doc.ins) THEN NativeFail(ErrorSignature, "IndexOutOfRange")
  ELSE IF ~SignatureValid(doc, inputIndex, signature)
       THEN NativeFail(ErrorSignature, "InvalidSignature")
  ELSE NativeDoc([doc EXCEPT !.sigs[inputIndex + 1] = signature])

(***************************************************************************)
(* The native library: the finalizer and the extracted transaction.        *)
(***************************************************************************)
Incomplete(doc) ==
  \/ \E i \in 1..Len(doc.sigs) : doc.sigs[i] = NoSig
  \/ \E i \in 1..Len(doc.acts) : ~doc.acts[i].proof

PaidFee(doc) == SumAmount(doc.ins) - SumValue(doc.outs) - SumValue(doc.acts)

RECURSIVE TxInputs(_, _)
TxInputs(ins, sigs) ==
  IF ins = <<>> THEN <<>>
  ELSE <<Head(ins).txid, Head(ins).vout, Head(sigs).key, Head(sigs).nonce>>
         \o TxInputs(Tail(ins), Tail(sigs))

TxBytes(doc) ==
  <<5, doc.branch, Len(doc.ins)>> \o TxInputs(doc.ins, doc.sigs)
    \o <<Len(doc.outs)>> \o FlattenOutputs(doc.outs)
    \o <<Len(doc.acts)>> \o FlattenActions(doc.acts)

pczt_finalize_and_extract(doc) ==
  IF Incomplete(doc) THEN NativeFail(ErrorFinalization, "IncompleteDocument")
  ELSE IF PaidFee(doc) < pczt_calculate_fee(Len(doc.ins), Len(doc.outs), Len(doc.acts))
       THEN NativeFail(ErrorFinalization, "BalanceError")
  ELSE NativeVal(TxBytes(doc))

(***************************************************************************)
(* The native library: the combiner.                                       *)
(***************************************************************************)
\* What the copies of one proposal share: everything but signatures and proofs.
Unsigned(doc) ==
  [ins |-> doc.ins, outs |-> doc.outs, branch |-> doc.branch,
   acts |-> [i \in 1..Len(doc.acts) |-> [doc.acts[i] EXCEPT !.proof = FALSE]]]

SlotSigs(docs, i) ==
  { docs[k].sigs[i] : k \in 1..Len(docs) } \ {NoSig}

CombineConflict(docs) ==
  \/ \E k \in 1..Len(docs) : Unsigned(docs[k]) # Unsigned(docs[1])
  \/ \E i \in 1..Len(docs[1].sigs) : Cardinality(SlotSigs(docs, i)) > 1

pczt_combine(docs) ==
  IF CombineConflict(docs) THEN NativeFail(ErrorCombine, "CombineConflict")
  ELSE NativeDoc(
    [docs[1] EXCEPT
       !.sigs   = [i \in 1..Len(docs[1].sigs) |->
                     IF SlotSigs(docs, i) = {} THEN NoSig
                     ELSE CHOOSE x \in SlotSigs(docs, i) : TRUE],
       !.acts   = [i \in 1..Len(docs[1].acts) |->
                     [docs[1].acts[i] EXCEPT
                        !.proof = \E k \in 1..Len(docs) : docs[k].acts[i].proof]],
       !.proved = \E k \in 1..Len(docs) : docs[k].proved])

(***************************************************************************)
(* The native library: the codec of the PCZT container.                    *)
(***************************************************************************)
PcztMagic == <<80, 67, 90, 84>>

EncodeSig(sig) ==
  IF sig = NoSig THEN <<0>>
  ELSE <<1, sig.key, sig.nonce, Len(sig.msg)>> \o sig.msg

RECURSIVE EncodeSigs(_)
EncodeSigs(sigs) ==
  IF sigs = <<>> THEN <<>> ELSE EncodeSig(Head(sigs)) \o EncodeSigs(Tail(sigs))

RECURSIVE EncodeActions(_)
EncodeActions(acts) ==
  IF acts = <<>> THEN <<>>
  ELSE <<Head(acts).recipient, Head(acts).value, IF Head(acts).proof THEN 1 ELSE 0>>
         \o EncodeActions(Tail(acts))

pczt_serialize(doc) ==
  NativeVal(PcztMagic
    \o <<1, IF doc.proved THEN 1 ELSE 0, doc.branch,
         Len(doc.ins), Len(doc.outs), Len(doc.acts)>>
    \o serializeInputList(doc.ins) \o FlattenOutputs(doc.outs)
    \o EncodeActions(doc.acts) \o EncodeSigs(doc.sigs))

pczt_parse(b) ==
  LET h    == ReadBytes(b, 1, 10)
      ins  == IF h.ok THEN ReadMany("input", b, h.pos, h.val[8]) ELSE ReadFail
      outs == IF ins.ok THEN ReadMany("output", b, ins.pos, h.val[9]) ELSE ReadFail
      acts == IF outs.ok THEN ReadMany("action", b, outs.pos, h.val[10]) ELSE ReadFail
      sigs == IF acts.ok THEN ReadMany("sig", b, acts.pos, h.val[8]) ELSE ReadFail
  IN IF \/ ~sigs.ok
        \/ SubSeq(h.val, 1, 4) # PcztMagic
        \/ h.val[5] # 1
        \/ h.val[6] \notin {0, 1}
        \/ sigs.pos # Len(b) + 1
     THEN NativeFail(ErrorParse, "CodecError")
     ELSE NativeDoc([kind   |-> "pczt",
                     ins    |-> ins.val,
                     outs   |-> outs.val,
                     acts   |-> acts.val,
                     sigs   |-> sigs.val,
                     proved |-> h.val[6] = 1,
                     branch |-> h.val[7]])

(***************************************************************************)
(* The native library: the verifier.  The document's visible effects (its  *)
(* transparent outputs and Orchard actions) must be, as a multiset,        *)
(* exactly the request's payments plus the expected change.                *)
(***************************************************************************)
RECURSIVE PaymentEffects(_)
PaymentEffects(ps) ==
  IF ps = <<>> THEN <<>>
  ELSE <<[to     |-> IF PaymentIsShielded(Head(ps)) THEN <<AddrCode(Head(ps).address)>>
                     ELSE AddrScript(Head(ps).address),
          value  |-> Head(ps).amount]>> \o PaymentEffects(Tail(ps))

RECURSIVE ChangeEffects(_)
ChangeEffects(cs) ==
  IF cs = <<>> THEN <<>>
  ELSE <<[to |-> Head(cs).script, value |-> Head(cs).value]>> \o ChangeEffects(Tail(cs))

RECURSIVE ActionEffects(_)
ActionEffects(acts) ==
  IF acts = <<>> THEN <<>>
  ELSE <<[to |-> <<Head(acts).recipient>>, value |-> Head(acts).value]>>
         \o ActionEffects(Tail(acts))

DocEffects(doc) == ChangeEffects(doc.outs) \o ActionEffects(doc.acts)

Count(x, seq) == Cardinality({ i \in 1..Len(seq) : seq[i] = x })
Elems(seq)    == { seq[i] : i \in 1..Len(seq) }

VerifyDetail(doc, req, expectedChange) ==
  LET want == PaymentEffects(req.payments) \o ChangeEffects(expectedChange)
      have == DocEffects(doc)
  IN IF \E e \in Elems(want) : \A a \in Elems(have) : a.to # e.to
       THEN "RecipientMismatch"
     ELSE IF \E e \in Elems(want) : Count(e, have) < Count(e, want)
       THEN "AmountMismatch"
     ELSE IF \E a \in Elems(have) : Count(a, have) > Count(a, want)
       THEN "UnexpectedOutput"
     ELSE ""

pczt_verify_before_signing(doc, req, expectedChange) ==
  IF VerifyDetail(doc, req, expectedChange) = "" THEN NativeVal(<<>>)
  ELSE NativeFail(ErrorVerification, VerifyDetail(doc, req, expectedChange))

(***************************************************************************)
(* The state.                                                              *)
(*   pczt     the Go *PCZT objects: st is "unalloc" (no such object),      *)
(*            or "held" (the caller holds a pointer to it); handle is its  *)
(*            native handle; fin tells whether its finalizer is set        *)
(*   heap     the native library's documents, by handle                    *)
(*   request  the caller's *TransactionRequest                             *)
(*   inputs   the caller's []TransparentInput                              *)
(*   last     the last API call: its arguments and what it returned        *)
(***************************************************************************)
VARIABLES pczt, heap, request, inputs, last

vars == <<pczt, heap, request, inputs, last>>

Unalloc == [st |-> "unalloc", handle |-> NULL, fin |-> FALSE]

Held       == { w \in Wrappers : pczt[w].st = "held" }
PcztArgs   == Held \cup {NULL}            \* what a caller can pass as a *PCZT
FreeSlots  == { w \in Wrappers : pczt[w].st = "unalloc" }
NewSlot    == CHOOSE w \in FreeSlots : \A v \in FreeSlots : w <= v
FreeHandles(h) == { x \in Handles : h[x] = NoDoc }
NewHandle(h)   == CHOOSE x \in FreeHandles(h) : \A y \in FreeHandles(h) : x <= y

\* a check that forgets the consumed object: pczt == nil only
IsInvalidPCZT_NilOnly(w) == w = NULL

\* pczt == nil || pczt.handle == nil
IsInvalidPCZT(w) == w = NULL \/ pczt[w].handle = NULL

\* The document behind a handle; a nil or dangling handle has none.
HasDoc(h, x) == x # NULL /\ h[x] # NoDoc
DocOf(w)     == IF w # NULL /\ HasDoc(heap, pczt[w].handle) THEN heap[pczt[w].handle]
                ELSE NoDoc

(***************************************************************************)
(* The scenarios: what the caller spends and whom it pays.                 *)
(***************************************************************************)
Input1 == [pubkey |-> 1, txid |-> 11, vout |-> 0, amount |-> 100000000,
           script |-> PubkeyScript(1)]
Input2 == [pubkey |-> 2, txid |-> 12, vout |-> 1, amount |-> 40000,
           script |-> PubkeyScript(2)]

Scenarios ==
  { [inputs |-> <<Input1>>,
     payments |-> <<[address |-> "tA", amount |-> 50000000],
                    [address |-> "uS", amount |-> 20000]>>] }

InputIndexes == {0, 1, 999}

(***************************************************************************)
(* The record of an API call.                                              *)
(*   op, args, idx, sig   the call                                         *)
(*   pre     the documents behind the arguments when the call was made     *)
(*   err     the error returned ("" is nil)      detail  its message       *)
(*   native  whether the native function was called, passed the handles    *)
(*           it was given                                                  *)
(*   out     the *PCZT returned (NULL is nil)    val     the bytes returned *)
(*   req, change   the payments and the expected change of a verification  *)
(*   had     the native handle each *PCZT argument held before the call    *)
(*   shape, fee   the three counts given to CalculateFee and its result     *)
(*   addr    the change address given to ProposeTransactionWithChange       *)
(*   memo    the first digest GetSighash has returned since the last call   *)
(*           that was not a reading one: the object, the index, the digest  *)
(*           and the number of reading calls made since (2: two or more)    *)
(*   slot    when calls overlap: the message pczt_get_last_error returns    *)
(*   running when calls overlap: each goroutine's call and how far it is    *)
(*   wait    a WaitForBlocks in progress: its arguments, locals and place   *)
(***************************************************************************)
NoCall ==
  [op |-> "none", args |-> <<>>, idx |-> 0, sig |-> NoSig, pre |-> <<>>,
   err |-> "", detail |-> "", native |-> FALSE, passed |-> <<>>,
   out |-> NULL, val |-> <<>>, req |-> <<>>, change |-> <<>>, had |-> <<>>,
   shape |-> <<>>, fee |-> 0, addr |-> "", memo |-> <<>>,
   slot |-> "", running |-> <<>>, wait |-> [pc |-> "none"]]

Call(op, args, idx, sig) ==
  [NoCall EXCEPT !.op = op, !.args = args, !.idx = idx, !.sig = sig,
                 !.pre = [i \in 1..Len(args) |-> DocOf(args[i])],
                 !.had = [i \in 1..Len(args) |->
                            IF args[i] = NULL THEN NULL ELSE pczt[args[i]].handle]]

\* what a reading call keeps of the digests returned before it
Carried ==
  IF last.memo = <<>> THEN <<>> ELSE [last.memo EXCEPT ![4] = IF @ = 0 THEN 1 ELSE 2]

Reading(call) == [call EXCEPT !.memo = Carried]

\* errors.New(msg): the call returns before any native call
GoError(call, msg) == [call EXCEPT !.err = msg, !.detail = msg]

\* wrapError(code): nil for Success, otherwise the code's name and the message
\* the library recorded
wrapError(call, res) ==
  [call EXCEPT !.err = IF res.code = Success THEN "" ELSE res.code,
               !.detail = IF res.code = Success THEN "" ELSE res.detail]

(***************************************************************************)
(* PCZT: newPCZT, Free, consumeHandle and the finalizer.                   *)
(***************************************************************************)
\* a newPCZT that sets no finalizer
newPCZT_NoFinalizer(handle) == [st |-> "held", handle |-> handle, fin |-> FALSE]

newPCZT(handle) == [st |-> "held", handle |-> handle, fin |-> TRUE]

\* a consumeHandle that returns the handle without clearing the object
consumeHandle_Keep(p) == [ret |-> p.handle, obj |-> [p EXCEPT !.fin = FALSE]]

\* consumeHandle returns the handle (ret) and leaves the object (obj) cleared
consumeHandle(p) ==
  IF p.handle = NULL THEN [ret |-> NULL, obj |-> p]
  ELSE [ret |-> p.handle, obj |-> [p EXCEPT !.fin = FALSE, !.handle = NULL]]

Init ==
  /\ pczt = [w \in Wrappers |-> Unalloc]
  /\ heap = [h \in Handles |-> NoDoc]
  /\ \E sc \in Scenarios :
       /\ inputs = sc.inputs
       /\ request = [Payments |-> sc.payments, live |-> TRUE,
                     payments |-> sc.payments, height |-> 2500000, mainnet |-> TRUE]
  /\ last = NoCall

(***************************************************************************)
(* The calls into the native library.  A function given a nil handle       *)
(* answers ERROR_NULL_POINTER.  A consuming function frees the documents   *)
(* it is given, whatever it answers.                                       *)
(***************************************************************************)
NullPointer == NativeFail(ErrorNullPointer, "NullPointer")

Native(call, handles) == [call EXCEPT !.native = TRUE, !.passed = handles]

Released(h, handles) ==
  [x \in Handles |-> IF \E i \in 1..Len(handles) : handles[i] = x THEN NoDoc ELSE h[x]]

\* The end of every function that returns a *PCZT:
\*   if code != C.SUCCESS { return nil, wrapError(ResultCode(code)) }
\*   return newPCZT(outHandle), nil
\* The library allocates the new document at NewHandle: a free address, which may
\* be the address of a document the same call has just freed.
ReturnPCZT(call, res, pczt1, heap1) ==
  IF res.code # Success
  THEN /\ pczt' = pczt1
       /\ heap' = heap1
       /\ last' = wrapError(call, res)
  ELSE /\ FreeHandles(heap1) # {}
       /\ FreeSlots # {}
       /\ pczt' = [pczt1 EXCEPT ![NewSlot] = newPCZT(NewHandle(heap1))]
       /\ heap' = [heap1 EXCEPT ![NewHandle(heap1)] = res.doc]
       /\ last' = [wrapError(call, res) EXCEPT !.out = NewSlot]

(***************************************************************************)
(* NewTransactionRequest.  The library keeps the payments it is given; it  *)
(* is the builder that judges them.                                        *)
(***************************************************************************)
NilRequest ==
  [Payments |-> <<>>, live |-> FALSE, payments |-> <<>>,
   height |-> 2500000, mainnet |-> TRUE]

pczt_transaction_request_new(payments) == NativeVal(payments)

\* a NewTransactionRequest without the check of len(payments)
NewTransactionRequest_NoLenCheck(payments) ==
  LET call == [Call("NewTransactionRequest", <<>>, 0, NoSig) EXCEPT !.req = payments]
      res  == pczt_transaction_request_new(payments)
  IN /\ UNCHANGED <<pczt, heap, inputs>>
     /\ last' = wrapError(Native(call, <<>>), res)
     /\ request' = [NilRequest EXCEPT !.Payments = payments, !.live = TRUE,
                                      !.payments = res.val]

NewTransactionRequest(payments) ==
  LET call == [Call("NewTransactionRequest", <<>>, 0, NoSig) EXCEPT !.req = payments]
      res  == pczt_transaction_request_new(payments)
  IN /\ UNCHANGED <<pczt, heap, inputs>>
     /\ IF Len(payments) = 0
        THEN /\ last' = GoError(call, ErrNoPayments)
             /\ UNCHANGED request
        ELSE /\ last' = wrapError(Native(call, <<>>), res)
             /\ request' = IF res.code # Success THEN request
                           ELSE [NilRequest EXCEPT !.Payments = payments, !.live = TRUE,
                                                   !.payments = res.val]

(***************************************************************************)
(* ProposeTransactionWithChange (ProposeTransaction passes "").            *)
(***************************************************************************)
\* a ProposeTransactionWithChange that wraps the out handle whatever the code
ProposeTransactionWithChange_IgnoreCode(ins, changeAddress) ==
  LET call == [Call("ProposeTransaction", <<>>, 0, NoSig) EXCEPT !.addr = changeAddress]
      res  == pczt_propose_transaction(serializeTransparentInputs(ins), request, changeAddress)
  IN /\ UNCHANGED <<request, inputs>>
     /\ IF ins = <<>>
        THEN /\ last' = GoError(call, ErrNoInputs)
             /\ UNCHANGED <<pczt, heap>>
        ELSE IF ~request.live
        THEN /\ last' = GoError(call, ErrInvalidRequest)
             /\ UNCHANGED <<pczt, heap>>
        ELSE IF res.code = Success
        THEN ReturnPCZT(Native(call, <<>>), res, pczt, heap)
        ELSE /\ FreeSlots # {}
             /\ pczt' = [pczt EXCEPT ![NewSlot] = newPCZT(NULL)]
             /\ heap' = heap
             /\ last' = [Native(call, <<>>) EXCEPT !.out = NewSlot]

\* a ProposeTransactionWithChange that takes the request over, as the consuming
\* operations take their document
ProposeTransactionWithChange_ConsumeRequest(ins, changeAddress) ==
  LET call == [Call("ProposeTransaction", <<>>, 0, NoSig) EXCEPT !.addr = changeAddress]
  IN /\ UNCHANGED inputs
     /\ IF ins = <<>>
        THEN /\ last' = GoError(call, ErrNoInputs)
             /\ UNCHANGED <<pczt, heap, request>>
        ELSE IF ~request.live
        THEN /\ last' = GoError(call, ErrInvalidRequest)
             /\ UNCHANGED <<pczt, heap, request>>
        ELSE /\ request' = [request EXCEPT !.live = FALSE]
             /\ ReturnPCZT(Native(call, <<>>),
                           pczt_propose_transaction(serializeTransparentInputs(ins),
                                                    request, changeAddress),
                           pczt, heap)

ProposeTransactionWithChange(ins, changeAddress) ==
  LET call == [Call("ProposeTransaction", <<>>, 0, NoSig) EXCEPT !.addr = changeAddress]
  IN /\ UNCHANGED <<request, inputs>>
     /\ IF ins = <<>>
        THEN /\ last' = GoError(call, ErrNoInputs)
             /\ UNCHANGED <<pczt, heap>>
        ELSE IF ~request.live
        THEN /\ last' = GoError(call, ErrInvalidRequest)
             /\ UNCHANGED <<pczt, heap>>
        ELSE ReturnPCZT(Native(call, <<>>),
                        pczt_propose_transaction(serializeTransparentInputs(ins),
                                                 request, changeAddress),
                        pczt, heap)

ProposeTransaction(ins) == ProposeTransactionWithChange(ins, "")

(***************************************************************************)
(* ProveTransaction                                                        *)
(***************************************************************************)
ProveTransaction(w, proverOk) ==
  LET call == Call("ProveTransaction", <<w>>, 0, NoSig)
  IN /\ UNCHANGED <<request, inputs>>
     /\ IF IsInvalidPCZT(w)
        THEN /\ last' = GoError(call, ErrInvalidPCZT)
             /\ UNCHANGED <<pczt, heap>>
        ELSE LET c      == consumeHandle(pczt[w])
                 handle == c.ret
             IN ReturnPCZT(Native(call, <<handle>>),
                           IF HasDoc(heap, handle)
                           THEN pczt_prove_transaction(heap[handle], proverOk)
                           ELSE NullPointer,
                           [pczt EXCEPT ![w] = c.obj],
                           Released(heap, <<handle>>))

(***************************************************************************)
(* GetSighash                                                              *)
(***************************************************************************)
\* a GetSighash that takes the handle over, as the consuming operations do
GetSighash_Consuming(w, inputIndex) ==
  LET call == Call("GetSighash", <<w>>, inputIndex, NoSig)
  IN /\ UNCHANGED <<request, inputs>>
     /\ IF w = NULL \/ pczt[w].handle = NULL
        THEN /\ last' = GoError(call, ErrInvalidPCZT)
             /\ UNCHANGED <<pczt, heap>>
        ELSE LET handle == pczt[w].handle
                 res    == IF HasDoc(heap, handle)
                           THEN pczt_get_sighash(heap[handle], inputIndex)
                           ELSE NullPointer
             IN /\ pczt' = [pczt EXCEPT ![w].fin = FALSE, ![w].handle = NULL]
                /\ heap' = Released(heap, <<handle>>)
                /\ last' = [wrapError(Native(call, <<handle>>), res) EXCEPT !.val = res.val]

\* a GetSighash that returns the buffer without looking at the result code
GetSighash_IgnoreCode(w, inputIndex) ==
  LET call == Call("GetSighash", <<w>>, inputIndex, NoSig)
  IN /\ UNCHANGED <<pczt, heap, request, inputs>>
     /\ IF w = NULL \/ pczt[w].handle = NULL
        THEN last' = GoError(call, ErrInvalidPCZT)
        ELSE LET handle == pczt[w].handle
                 res    == IF HasDoc(heap, handle)
                           THEN pczt_get_sighash(heap[handle], inputIndex)
                           ELSE NullPointer
             IN last' = [Native(call, <<handle>>) EXCEPT !.val = res.val]

\* a GetSighash that asks the library for the digest of input 0 whatever the
\* caller asked
GetSighash_FirstInput(w, inputIndex) ==
  LET call == Reading(Call("GetSighash", <<w>>, inputIndex, NoSig))
  IN /\ UNCHANGED <<pczt, heap, request, inputs>>
     /\ IF IsInvalidPCZT(w)
        THEN last' = GoError(call, ErrInvalidPCZT)
        ELSE LET handle == pczt[w].handle
                 res    == IF HasDoc(heap, handle)
                           THEN pczt_get_sighash(heap[handle], 0)
                           ELSE NullPointer
             IN last' = [wrapError(Native(call, <<handle>>), res)
                           EXCEPT !.val = res.val,
                                  !.memo = IF res.code = Success /\ @ = <<>>
                                           THEN <<w, inputIndex, res.val, 0>> ELSE @]

GetSighash(w, inputIndex) ==
  LET call == Reading(Call("GetSighash", <<w>>, inputIndex, NoSig))
  IN /\ UNCHANGED <<pczt, heap, request, inputs>>
     /\ IF IsInvalidPCZT(w)
        THEN last' = GoError(call, ErrInvalidPCZT)
        ELSE LET handle == pczt[w].handle
                 res    == IF HasDoc(heap, handle)
                           THEN pczt_get_sighash(heap[handle], inputIndex)
                           ELSE NullPointer
             IN last' = [wrapError(Native(call, <<handle>>), res)
                           EXCEPT !.val = res.val,
                                  !.memo = IF res.code = Success /\ @ = <<>>
                                           THEN <<w, inputIndex, res.val, 0>> ELSE @]

(***************************************************************************)
(* AppendSignature                                                         *)
(***************************************************************************)
\* an AppendSignature that clears the object only when the library succeeds
AppendSignature_KeepOnError(w, inputIndex, signature) ==
  LET call == Call("AppendSignature", <<w>>, inputIndex, signature)
      handle == pczt[w].handle
      res    == IF HasDoc(heap, handle)
                THEN pczt_append_signature(heap[handle], inputIndex, signature)
                ELSE NullPointer
  IN /\ UNCHANGED <<request, inputs>>
     /\ IF w = NULL \/ pczt[w].handle = NULL
        THEN /\ last' = GoError(call, ErrInvalidPCZT)
             /\ UNCHANGED <<pczt, heap>>
        ELSE ReturnPCZT(Native(call, <<handle>>), res,
                        IF res.code = Success
                        THEN [pczt EXCEPT ![w] = consumeHandle(pczt[w]).obj]
                        ELSE pczt,
                        IF res.code = Success THEN Released(heap, <<handle>>) ELSE heap)

\* an AppendSignature that hands the library index 0 whatever the caller asked
AppendSignature_FirstInput(w, inputIndex, signature) ==
  LET call == Call("AppendSignature", <<w>>, inputIndex, signature)
  IN /\ UNCHANGED <<request, inputs>>
     /\ IF w = NULL \/ pczt[w].handle = NULL
        THEN /\ last' = GoError(call, ErrInvalidPCZT)
             /\ UNCHANGED <<pczt, heap>>
        ELSE LET c      == consumeHandle(pczt[w])
                 handle == c.ret
             IN ReturnPCZT(Native(call, <<handle>>),
                           IF HasDoc(heap, handle)
                           THEN pczt_append_signature(heap[handle], 0, signature)
                           ELSE NullPointer,
                           [pczt EXCEPT ![w] = c.obj],
                           Released(heap, <<handle>>))

AppendSignature(w, inputIndex, signature) ==
  LET call == Call("AppendSignature", <<w>>, inputIndex, signature)
  IN /\ UNCHANGED <<request, inputs>>
     /\ IF IsInvalidPCZT(w)
        THEN /\ last' = GoError(call, ErrInvalidPCZT)
             /\ UNCHANGED <<pczt, heap>>
        ELSE LET c      == consumeHandle(pczt[w])
                 handle == c.ret
             IN ReturnPCZT(Native(call, <<handle>>),
                           IF HasDoc(heap, handle)
                           THEN pczt_append_signature(heap[handle], inputIndex, signature)
                           ELSE NullPointer,
                           [pczt EXCEPT ![w] = c.obj],
                           Released(heap, <<handle>>))

(***************************************************************************)
(* FinalizeAndExtract                                                      *)
(***************************************************************************)
\* a FinalizeAndExtract that copies the out buffer whatever the result code
FinalizeAndExtract_IgnoreCode(w) ==
  LET call == Call("FinalizeAndExtract", <<w>>, 0, NoSig)
  IN /\ UNCHANGED <<request, inputs>>
     /\ IF w = NULL \/ pczt[w].handle = NULL
        THEN /\ last' = GoError(call, ErrInvalidPCZT)
             /\ UNCHANGED <<pczt, heap>>
        ELSE LET c      == consumeHandle(pczt[w])
                 handle == c.ret
                 res    == IF HasDoc(heap, handle)
                           THEN pczt_finalize_and_extract(heap[handle])
                           ELSE NullPointer
             IN /\ pczt' = [pczt EXCEPT ![w] = c.obj]
                /\ heap' = Released(heap, <<handle>>)
                /\ last' = [Native(call, <<handle>>) EXCEPT !.val = res.val]

FinalizeAndExtract(w) ==
  LET call == Call("FinalizeAndExtract", <<w>>, 0, NoSig)
  IN /\ UNCHANGED <<request, inputs>>
     /\ IF IsInvalidPCZT(w)
        THEN /\ last' = GoError(call, ErrInvalidPCZT)
             /\ UNCHANGED <<pczt, heap>>
        ELSE LET c      == consumeHandle(pczt[w])
                 handle == c.ret
                 res    == IF HasDoc(heap, handle)
                           THEN pczt_finalize_and_extract(heap[handle])
                           ELSE NullPointer
             IN /\ pczt' = [pczt EXCEPT ![w] = c.obj]
                /\ heap' = Released(heap, <<handle>>)
                /\ last' = [wrapError(Native(call, <<handle>>), res) EXCEPT !.val = res.val]

(***************************************************************************)
(* ParsePCZT and SerializePCZT                                             *)
(***************************************************************************)
\* a ParsePCZT that hands out the handle of a document it has parsed before
\* when the bytes are the same
ParsePCZT_Shared(pcztBytes) ==
  LET call == [Call("ParsePCZT", <<>>, 0, NoSig) EXCEPT !.val = pcztBytes]
      res  == pczt_parse(pcztBytes)
      same == { h \in Handles : heap[h] # NoDoc /\ res.code = Success /\ heap[h] = res.doc }
  IN /\ UNCHANGED <<request, inputs>>
     /\ IF Len(pcztBytes) = 0
        THEN /\ last' = GoError(call, ErrEmptyBytes)
             /\ UNCHANGED <<pczt, heap>>
        ELSE IF same # {}
        THEN /\ FreeSlots # {}
             /\ pczt' = [pczt EXCEPT ![NewSlot] = newPCZT(CHOOSE h \in same : TRUE)]
             /\ heap' = heap
             /\ last' = [wrapError(Native(call, <<>>), res) EXCEPT !.out = NewSlot]
        ELSE ReturnPCZT(Native(call, <<>>), res, pczt, heap)

ParsePCZT(pcztBytes) ==
  LET call == [Call("ParsePCZT", <<>>, 0, NoSig) EXCEPT !.val = pcztBytes]
  IN /\ UNCHANGED <<request, inputs>>
     /\ IF Len(pcztBytes) = 0
        THEN /\ last' = GoError(call, ErrEmptyBytes)
             /\ UNCHANGED <<pczt, heap>>
        ELSE ReturnPCZT(Native(call, <<>>), pczt_parse(pcztBytes), pczt, heap)

\* a copy that stops one byte short
GoBytes_Short(bytes, bytesLen) == SubSeq(bytes, 1, bytesLen - 1)

\* C.GoBytes(unsafe.Pointer(bytes), C.int(bytesLen)): the first bytesLen bytes
GoBytes(bytes, bytesLen) == SubSeq(bytes, 1, bytesLen)

\* a SerializePCZT that takes the handle over, as the consuming operations do
SerializePCZT_Consuming(w) ==
  LET call == Reading(Call("SerializePCZT", <<w>>, 0, NoSig))
  IN /\ UNCHANGED <<request, inputs>>
     /\ IF w = NULL \/ pczt[w].handle = NULL
        THEN /\ last' = GoError(call, ErrInvalidPCZT)
             /\ UNCHANGED <<pczt, heap>>
        ELSE LET handle == pczt[w].handle
                 res    == IF HasDoc(heap, handle) THEN pczt_serialize(heap[handle])
                           ELSE NullPointer
             IN /\ pczt' = [pczt EXCEPT ![w].fin = FALSE, ![w].handle = NULL]
                /\ heap' = Released(heap, <<handle>>)
                /\ last' = [wrapError(Native(call, <<handle>>), res)
                              EXCEPT !.val = GoBytes(res.val, Len(res.val))]

SerializePCZT(w) ==
  LET call == Reading(Call("SerializePCZT", <<w>>, 0, NoSig))
  IN /\ UNCHANGED <<pczt, heap, request, inputs>>
     /\ IF IsInvalidPCZT(w)
        THEN last' = GoError(call, ErrInvalidPCZT)
        ELSE LET handle == pczt[w].handle
                 res    == IF HasDoc(heap, handle) THEN pczt_serialize(heap[handle])
                           ELSE NullPointer
             IN last' = [wrapError(Native(call, <<handle>>), res)
                           EXCEPT !.val = GoBytes(res.val, Len(res.val))]

(***************************************************************************)
(* Combine                                                                 *)
(***************************************************************************)
\* for i, pczt := range pczts { handles[i] = pczt.consumeHandle() }
RECURSIVE ConsumeAll(_, _)
ConsumeAll(p, pczts) ==
  IF pczts = <<>> THEN [pczt |-> p, handles |-> <<>>]
  ELSE LET c == consumeHandle(p[Head(pczts)])
           r == ConsumeAll([p EXCEPT ![Head(pczts)] = c.obj], Tail(pczts))
       IN [pczt |-> r.pczt, handles |-> <<c.ret>> \o r.handles]

FirstInvalid(pczts) ==
  CHOOSE i \in 1..Len(pczts) :
    /\ IsInvalidPCZT(pczts[i])
    /\ \A j \in 1..(i - 1) : ~IsInvalidPCZT(pczts[j])

\* a Combine that hands the library the first handle only
Combine_FirstOnly(pczts, freed) ==
  LET call == Call("Combine", pczts, 0, NoSig)
  IN /\ UNCHANGED <<request, inputs>>
     /\ IF Len(pczts) = 0
        THEN /\ last' = GoError(call, ErrNoPCZTs)
             /\ UNCHANGED <<pczt, heap>>
        ELSE IF \E i \in 1..Len(pczts) : pczts[i] = NULL \/ pczt[pczts[i]].handle = NULL
        THEN /\ last' = GoError(call, "invalid PCZT at index")
             /\ UNCHANGED <<pczt, heap>>
        ELSE LET c       == ConsumeAll(pczt, pczts)
                 handles == <<c.handles[1]>>
                 allDocs == HasDoc(heap, handles[1])
             IN ReturnPCZT(Native(call, handles),
                           IF allDocs THEN pczt_combine(<<heap[handles[1]]>>)
                           ELSE NullPointer,
                           c.pczt,
                           IF allDocs \/ freed THEN Released(heap, c.handles) ELSE heap)

\* a Combine that wraps the out handle whatever the result code
Combine_IgnoreCode(pczts, freed) ==
  LET call == Call("Combine", pczts, 0, NoSig)
  IN /\ UNCHANGED <<request, inputs>>
     /\ IF Len(pczts) = 0
        THEN /\ last' = GoError(call, ErrNoPCZTs)
             /\ UNCHANGED <<pczt, heap>>
        ELSE IF \E i \in 1..Len(pczts) : pczts[i] = NULL \/ pczt[pczts[i]].handle = NULL
        THEN /\ last' = GoError(call, "invalid PCZT at index")
             /\ UNCHANGED <<pczt, heap>>
        ELSE LET c       == ConsumeAll(pczt, pczts)
                 handles == c.handles
                 allDocs == \A i \in 1..Len(handles) : HasDoc(heap, handles[i])
                 res     == IF allDocs
                            THEN pczt_combine([i \in 1..Len(handles) |-> heap[handles[i]]])
                            ELSE NullPointer
                 heap1   == IF allDocs \/ freed THEN Released(heap, handles) ELSE heap
             IN IF res.code = Success
                THEN ReturnPCZT(Native(call, handles), res, c.pczt, heap1)
                ELSE /\ FreeSlots # {}
                     /\ pczt' = [c.pczt EXCEPT ![NewSlot] = newPCZT(NULL)]
                     /\ heap' = heap1
                     /\ last' = [Native(call, handles) EXCEPT !.out = NewSlot]

\* freed: whether the library frees the documents it was handed together with a
\* nil handle.  Its documentation says that pczt_combine always consumes all
\* the handles it is given, also on error: every specification passes TRUE.
Combine(pczts, freed) ==
  LET call == Call("Combine", pczts, 0, NoSig)
  IN /\ UNCHANGED <<request, inputs>>
     /\ IF Len(pczts) = 0
        THEN /\ last' = GoError(call, ErrNoPCZTs)
             /\ UNCHANGED <<pczt, heap>>
        ELSE IF \E i \in 1..Len(pczts) : IsInvalidPCZT(pczts[i])
        THEN /\ last' = [GoError(call, "invalid PCZT at index")
                           EXCEPT !.idx = FirstInvalid(pczts) - 1]
             /\ UNCHANGED <<pczt, heap>>
        ELSE LET c       == ConsumeAll(pczt, pczts)
                 handles == c.handles
                 allDocs == \A i \in 1..Len(handles) : HasDoc(heap, handles[i])
             IN ReturnPCZT(Native(call, handles),
                           IF allDocs
                           THEN pczt_combine([i \in 1..Len(handles) |-> heap[handles[i]]])
                           ELSE NullPointer,
                           c.pczt,
                           IF allDocs \/ freed THEN Released(heap, handles) ELSE heap)

(***************************************************************************)
(* VerifyBeforeSigning                                                     *)
(***************************************************************************)
\* a VerifyBeforeSigning that hands the library an empty expected-change array
VerifyBeforeSigning_NoChange(w, req, expectedChange) ==
  LET call == [Call("VerifyBeforeSigning", <<w>>, 0, NoSig)
                 EXCEPT !.req = req.payments, !.change = expectedChange]
  IN /\ UNCHANGED <<pczt, heap, request, inputs>>
     /\ IF w = NULL \/ pczt[w].handle = NULL
        THEN last' = GoError(call, ErrInvalidPCZT)
        ELSE IF ~req.live
        THEN last' = GoError(call, ErrInvalidRequest)
        ELSE LET handle == pczt[w].handle
                 res    == IF HasDoc(heap, handle)
                           THEN pczt_verify_before_signing(heap[handle], req, <<>>)
                           ELSE NullPointer
             IN last' = wrapError(Native(call, <<handle>>), res)

\* a VerifyBeforeSigning that does not look at the result code
VerifyBeforeSigning_IgnoreCode(w, req, expectedChange) ==
  LET call == [Call("VerifyBeforeSigning", <<w>>, 0, NoSig)
                 EXCEPT !.req = req.payments, !.change = expectedChange]
  IN /\ UNCHANGED <<pczt, heap, request, inputs>>
     /\ IF w = NULL \/ pczt[w].handle = NULL
        THEN last' = GoError(call, ErrInvalidPCZT)
        ELSE IF ~req.live
        THEN last' = GoError(call, ErrInvalidRequest)
        ELSE last' = Native(call, <<pczt[w].handle>>)

VerifyBeforeSigning(w, req, expectedChange) ==
  LET call == [Reading(Call("VerifyBeforeSigning", <<w>>, 0, NoSig))
                 EXCEPT !.req = req.payments, !.change = expectedChange]
  IN /\ UNCHANGED <<pczt, heap, request, inputs>>
     /\ IF IsInvalidPCZT(w)
        THEN last' = GoError(call, ErrInvalidPCZT)
        ELSE IF ~req.live
        THEN last' = GoError(call, ErrInvalidRequest)
        ELSE LET handle == pczt[w].handle
                 res    == IF HasDoc(heap, handle)
                           THEN pczt_verify_before_signing(heap[handle], req, expectedChange)
                           ELSE NullPointer
             IN last' = wrapError(Native(call, <<handle>>), res)

(***************************************************************************)
(* CalculateFee                                                            *)
(***************************************************************************)
\* a CalculateFee that hands the two output counts over in the wrong order
CalculateFee_Swapped(numTransparentInputs, numTransparentOutputs, numOrchardOutputs) ==
  /\ UNCHANGED <<pczt, heap, request, inputs>>
  /\ last' = [NoCall EXCEPT
                !.op = "CalculateFee",
                !.shape = <<numTransparentInputs, numTransparentOutputs, numOrchardOutputs>>,
                !.fee = pczt_calculate_fee(numTransparentInputs, numOrchardOutputs,
                                           numTransparentOutputs)]

\* a CalculateFee that narrows the input count to two bits on the way
CalculateFee_Narrow(numTransparentInputs, numTransparentOutputs, numOrchardOutputs) ==
  /\ UNCHANGED <<pczt, heap, request, inputs>>
  /\ last' = [NoCall EXCEPT
                !.op = "CalculateFee",
                !.shape = <<numTransparentInputs, numTransparentOutputs, numOrchardOutputs>>,
                !.fee = pczt_calculate_fee(numTransparentInputs % 4, numTransparentOutputs,
                                           numOrchardOutputs)]

CalculateFee(numTransparentInputs, numTransparentOutputs, numOrchardOutputs) ==
  /\ UNCHANGED <<pczt, heap, request, inputs>>
  /\ last' = [NoCall EXCEPT
                !.op = "CalculateFee",
                !.shape = <<numTransparentInputs, numTransparentOutputs, numOrchardOutputs>>,
                !.fee = pczt_calculate_fee(numTransparentInputs, numTransparentOutputs,
                                           numOrchardOutputs)]

(***************************************************************************)
(* Free, and the garbage collector: the caller drops its pointer to an     *)
(* object, and later the collector runs the finalizer newPCZT set, if it   *)
(* is still set, and reclaims the object.                                  *)
(***************************************************************************)
Free(w) ==
  /\ w \in Held
  /\ UNCHANGED <<request, inputs>>
  /\ IF pczt[w].handle # NULL
     THEN /\ pczt' = [pczt EXCEPT ![w].fin = FALSE, ![w].handle = NULL]
          /\ heap' = Released(heap, <<pczt[w].handle>>)
          /\ last' = Native(Call("Free", <<w>>, 0, NoSig), <<pczt[w].handle>>)
     ELSE /\ UNCHANGED <<pczt, heap>>
          /\ last' = Call("Free", <<w>>, 0, NoSig)

RequestFree ==
  /\ request.live
  /\ request' = [request EXCEPT !.live = FALSE]
  /\ last' = Call("TransactionRequest.Free", <<>>, 0, NoSig)
  /\ UNCHANGED <<pczt, heap, inputs>>

\* The caller lets go of the object and the collector runs the finalizer that
\* newPCZT set, unless Free or consumeHandle has cleared it.
Collect(w) ==
  /\ w \in Held
  /\ pczt' = [pczt EXCEPT ![w] = Unalloc]
  /\ UNCHANGED <<request, inputs>>
  /\ IF pczt[w].fin /\ pczt[w].handle # NULL
     THEN /\ heap' = Released(heap, <<pczt[w].handle>>)
          /\ last' = Native(Call("finalizer", <<w>>, 0, NoSig), <<pczt[w].handle>>)
     ELSE /\ UNCHANGED heap
          /\ last' = Call("finalizer", <<w>>, 0, NoSig)

(***************************************************************************)
(* What a caller passes.                                                   *)
(***************************************************************************)
\* an index is only varied against an object that still has a document
IndexesFor(w) == IF DocOf(w) = NoDoc THEN {0} ELSE InputIndexes

\* the signature of input i's key over input i's sighash
ValidSignature(d, i, n) == Sign(d.ins[i + 1].pubkey, Digest(d, i), n)

\* the all-zero signature and, for an input of the document, the valid one
Signatures(w, i) ==
  LET d == DocOf(w)
  IN IF d = NoDoc \/ i >= Len(d.ins) THEN {ZeroSig}
     ELSE {ZeroSig, ValidSignature(d, i, 1)}

\* the change the caller works out from its inputs, its payments and CalculateFee
ChangeAmount ==
  SumAmount(inputs) - SumAmount(request.payments)
    - pczt_calculate_fee(Len(inputs), Len(PaymentOutputs(request.payments)) + 1,
                         Len(PaymentActions(request.payments)))

ChangeTo(script, value) == <<[script |-> script, value |-> value]>>

CorrectChange ==
  IF ChangeAmount <= 0 THEN <<>>
  ELSE ChangeTo(PubkeyScript(inputs[1].pubkey), ChangeAmount)

ExpectedChanges(w) == IF DocOf(w) = NoDoc THEN {<<>>} ELSE {<<>>, CorrectChange}

\* the bytes a SerializePCZT has just returned (or a ParsePCZT was just given),
\* whole or cut short; and no bytes
BytesToParse ==
  {<<>>} \cup
  (IF last.op \in {"SerializePCZT", "ParsePCZT"} /\ last.err = ""
   THEN { last.val, SubSeq(last.val, 1, Len(last.val) - 1) }
   ELSE {})

\* no list, one object or nil, or two objects (the same one twice included)
PcztLists ==
  {<<>>} \cup { <<a>> : a \in PcztArgs }
         \cup UNION { { <<a, b>> : b \in { x \in Held : a <= x } } : a \in Held }

Next ==
  \/ \E ins \in {inputs, <<>>} : ProposeTransaction(ins)
  \/ \E w \in PcztArgs, ok \in BOOLEAN : ProveTransaction(w, ok)
  \/ \E w \in PcztArgs : \E i \in IndexesFor(w) : GetSighash(w, i)
  \/ \E w \in PcztArgs : \E i \in IndexesFor(w) : \E sig \in Signatures(w, i) :
       AppendSignature(w, i, sig)
  \/ \E w \in PcztArgs : FinalizeAndExtract(w)
  \/ \E b \in BytesToParse : ParsePCZT(b)
  \/ \E w \in PcztArgs : SerializePCZT(w)
  \/ \E l \in PcztLists : Combine(l, TRUE)
  \/ \E w \in PcztArgs : \E c \in ExpectedChanges(w) : VerifyBeforeSigning(w, request, c)
  \/ \E w \in Wrappers : Free(w)
  \/ \E w \in Wrappers : Collect(w)

Spec == Init /\ [][Next]_vars

(***************************************************************************)
(* Ownership.  The record last describes the call that led to the state.   *)
(***************************************************************************)
ConsumingOps == {"ProveTransaction", "AppendSignature", "FinalizeAndExtract", "Combine"}
ReadingOps   == {"GetSighash", "VerifyBeforeSigning", "SerializePCZT"}

\* the i-th *PCZT argument of the last call was live / was a consumed or freed object
WasLive(i) == last.had[i] # NULL
WasDead(i) == last.args[i] # NULL /\ last.had[i] = NULL
Args       == 1..Len(last.args)

\* C1: after a call of ProveTransaction, AppendSignature, FinalizeAndExtract or
\* Combine, every object that was passed to it with a live handle has its handle
\* cleared, whether the call returned a result or an error.
C1_ConsumingCallInvalidates ==
  last.op \in ConsumingOps =>
    \A i \in Args : WasLive(i) => pczt[last.args[i]].handle = NULL

\* C2: after Combine returns from a call with a non-empty list, with a document
\* or with any error, every element of the list is invalid.
C2_CombineConsumesAll ==
  last.op = "Combine" /\ Len(last.args) > 0 =>
    \A i \in Args : IsInvalidPCZT(last.args[i])

\* C3: an operation called on a consumed or freed object returns an error and
\* passes no handle to the native library.
C3_DeadHandleRejected ==
  last.op \in ConsumingOps \cup ReadingOps /\ (\E i \in Args : WasDead(i)) =>
    last.err # "" /\ ~last.native /\ last.passed = <<>> /\ last.out = NULL

C3_Witness ==
  /\ last.op = "AppendSignature"
  /\ WasDead(1)
  /\ last.err = ErrInvalidPCZT

\* C4: a step of GetSighash, VerifyBeforeSigning or SerializePCZT, successful or
\* failing, leaves every object's handle, every document and the request as
\* they were.
C4_ReadersChangeNothing ==
  [][last'.op \in ReadingOps =>
       pczt' = pczt /\ heap' = heap /\ request' = request /\ inputs' = inputs]_vars

C4_Witness ==
  /\ last.op = "GetSighash"
  /\ last.native /\ last.err # ""
  /\ WasLive(1)
  /\ DocOf(last.args[1]) = last.pre[1]
  /\ last.pre[1] # NoDoc

\* C5: no two objects the caller holds reference the same native handle.
C5_SingleOwnership ==
  \A v, w \in Held :
    v # w /\ pczt[v].handle # NULL => pczt[v].handle # pczt[w].handle

C5_Witness ==
  /\ \E v, w \in Held : v # w /\ pczt[v].handle # NULL /\ pczt[w].handle # NULL
  /\ \E w \in Held : pczt[w].handle = NULL
  /\ last.op = "ParsePCZT" /\ last.out # NULL

\* C10: AppendSignature on a live document with an index that names none of its
\* inputs returns an error and no document, and the object it was called on is
\* invalid afterwards.
C10_AppendBadIndexConsumes ==
  /\ last.op = "AppendSignature"
  /\ WasLive(1)
  /\ last.pre[1] # NoDoc
  /\ last.idx >= Len(last.pre[1].ins)
  => /\ last.err # ""
     /\ last.out = NULL
     /\ IsInvalidPCZT(last.args[1])

C10_Witness ==
  /\ last.op = "AppendSignature"
  /\ WasLive(1)
  /\ last.pre[1] # NoDoc
  /\ Len(last.pre[1].ins) = 1
  /\ last.idx = 999
  /\ last.err = ErrorSignature

\* the last call was GetSighash on a live document with an index that names
\* none of its inputs
SighashBadIndex ==
  /\ last.op = "GetSighash"
  /\ WasLive(1)
  /\ last.pre[1] # NoDoc
  /\ last.idx >= Len(last.pre[1].ins)

\* C11: GetSighash on a live document with an index that names none of its
\* inputs fails with IndexOutOfRange and returns no digest; the object keeps its
\* handle and its document, and a GetSighash for an existing input that
\* follows on the same object succeeds.
C11_SighashBadIndexKeepsHandle ==
  /\ [](SighashBadIndex =>
          /\ last.err = ErrorSighash
          /\ last.detail = "IndexOutOfRange"
          /\ last.val = <<>>
          /\ pczt[last.args[1]].handle = last.had[1]
          /\ DocOf(last.args[1]) = last.pre[1])
  /\ [][(/\ SighashBadIndex
          /\ last'.op = "GetSighash"
          /\ last'.args = last.args
          /\ last'.idx < Len(last.pre[1].ins))
         => (last'.err = "" /\ last'.val = Digest(last.pre[1], last'.idx))]_vars

C11_Witness ==
  /\ SighashBadIndex
  /\ Len(last.pre[1].ins) = 1
  /\ last.idx = 999
  /\ last.err = ErrorSighash
  /\ pczt[last.args[1]].handle # NULL

\* the last call was GetSighash for an object and an index for which an
\* earlier GetSighash returned a digest, with nothing but reading calls since
SighashAsked ==
  /\ last.op = "GetSighash"
  /\ last.memo # <<>>
  /\ last.memo[1] = last.args[1]
  /\ last.memo[2] = last.idx
  /\ last.memo[4] > 0

ScenariosVerify ==
  { [inputs |-> <<Input1>>,
     payments |-> <<[address |-> "tA", amount |-> 50000000]>>],
    [inputs |-> <<Input1>>,
     payments |-> <<[address |-> "tA", amount |-> 50000000],
                    [address |-> "uS", amount |-> 20000]>>],
    [inputs |-> <<Input2>>,
     payments |-> <<[address |-> "tA", amount |-> 30000]>>],
    [inputs |-> <<Input1, Input2>>,
     payments |-> <<[address |-> "tA", amount |-> 30000],
                    [address |-> "tA", amount |-> 30000]>>] }

InitVerify ==
  /\ pczt = [w \in Wrappers |-> Unalloc]
  /\ heap = [h \in Handles |-> NoDoc]
  /\ \E sc \in ScenariosVerify :
       /\ inputs = sc.inputs
       /\ request = [Payments |-> sc.payments, live |-> TRUE,
                     payments |-> sc.payments, height |-> 2500000, mainnet |-> TRUE]
  /\ last = NoCall

\* the amounts an altered payment can carry: the request's own amounts, one
\* unit, the double of an amount, and the change
AlteredAmounts ==
  { request.payments[i].amount : i \in 1..Len(request.payments) }
    \cup { 2 * request.payments[i].amount : i \in 1..Len(request.payments) }
    \cup {1} \cup (IF ChangeAmount > 0 THEN {ChangeAmount} ELSE {})

\* the payment lists that differ from the request's in one payment's amount or
\* in one payment's recipient
AlteredPayments ==
  ({ [request.payments EXCEPT ![i].amount = v] :
       i \in 1..Len(request.payments), v \in AlteredAmounts }
   \cup { [request.payments EXCEPT ![i].address = a] :
       i \in 1..Len(request.payments), a \in Transparent \cup Shielded })
  \ {request.payments}

RequestWith(ps) == [request EXCEPT !.Payments = ps, !.payments = ps]

ChangeFor(changeAddress) ==
  IF ChangeAmount <= 0 THEN <<>>
  ELSE ChangeTo(IF changeAddress = "" THEN PubkeyScript(inputs[1].pubkey)
                ELSE AddrScript(changeAddress), ChangeAmount)

ChangeAddresses == {"", "tB"}

\* no change, the change to either change address, and change of one unit more
ExpectedChangesVerify ==
  {<<>>} \cup { ChangeFor(ca) : ca \in ChangeAddresses }
         \cup { ChangeTo(PubkeyScript(inputs[1].pubkey), ChangeAmount + 1) }

NextVerify ==
  \/ Held = {} /\ ProposeTransaction(inputs)
  \/ Held = {} /\ \E ca \in ChangeAddresses : ProposeTransactionWithChange(inputs, ca)
  \/ \E w \in Held : ProveTransaction(w, TRUE)
  \/ \E w \in Held, ps \in {request.payments} \cup AlteredPayments,
        c \in ExpectedChangesVerify : VerifyBeforeSigning(w, RequestWith(ps), c)
  \/ \E w \in Held : Collect(w)

SpecVerify == InitVerify /\ [][NextVerify]_vars

\* the outputs of a document that pay none of the request's payments
ChangeOf(doc) ==
  SubSeq(doc.outs, Len(PaymentOutputs(request.payments)) + 1, Len(doc.outs))

DiffersInOnePayment(ps, qs) ==
  /\ Len(ps) = Len(qs)
  /\ Cardinality({ i \in 1..Len(ps) : ps[i] # qs[i] }) = 1

VerifiedLive ==
  /\ last.op = "VerifyBeforeSigning"
  /\ WasLive(1)
  /\ last.pre[1] # NoDoc

Unaccounted(doc, payments, expectedChange) ==
  LET want == PaymentEffects(payments) \o ChangeEffects(expectedChange)
      have == DocEffects(doc)
  IN \E i \in 1..Len(have) : Count(have[i], have) > Count(have[i], want)

\* an expected-change entry that no output of the document equals
ChangeMissing(doc, expectedChange) ==
  \E i \in 1..Len(expectedChange) :
    \A j \in 1..Len(doc.outs) : doc.outs[j] # expectedChange[i]

C6_CodecRoundTrip ==
  /\ last.op = "SerializePCZT" /\ last.err = "" =>
       /\ pczt_parse(last.val).code = Success
       /\ pczt_serialize(pczt_parse(last.val).doc).val = last.val
       /\ pczt_parse(last.val).doc = last.pre[1]
  /\ last.op = "ParsePCZT" /\ last.err = "" =>
       /\ last.out # NULL
       /\ pczt_serialize(DocOf(last.out)).val = last.val

C6_Witness ==
  /\ last.op = "ParsePCZT" /\ last.err = ""
  /\ last.out # NULL
  /\ DocOf(last.out).proved
  /\ DocOf(last.out).sigs[1] # NoSig
  /\ pczt_serialize(DocOf(last.out)).val = last.val

(***************************************************************************)
(* Signing: one document at a time is proposed, proved and signed, with    *)
(* valid signatures and with every near miss of one.                       *)
(***************************************************************************)
ScenariosSign ==
  { [inputs |-> <<Input1>>,
     payments |-> <<[address |-> "tA", amount |-> 50000000]>>],
    [inputs |-> <<Input1, Input2>>,
     payments |-> <<[address |-> "tA", amount |-> 30000],
                    [address |-> "uS", amount |-> 20000]>>] }

InitSign ==
  /\ pczt = [w \in Wrappers |-> Unalloc]
  /\ heap = [h \in Handles |-> NoDoc]
  /\ \E sc \in ScenariosSign :
       /\ inputs = sc.inputs
       /\ request = [Payments |-> sc.payments, live |-> TRUE,
                     payments |-> sc.payments, height |-> 2500000, mainnet |-> TRUE]
  /\ last = NoCall

\* the sighashes the caller can have obtained from the document
KnownSighashes(w) ==
  { pczt_get_sighash(DocOf(w), i).val : i \in 0..(Len(DocOf(w).ins) - 1) }

\* the all-zero value, and every signature by a key over a known sighash, with
\* a nonce that makes it well formed or not
SignaturesSign(w) ==
  {ZeroSig} \cup { Sign(k, m, n) : k \in Keys, m \in KnownSighashes(w), n \in Nonces \cup {0} }

NextSign ==
  \/ Held = {} /\ ProposeTransaction(inputs)
  \/ \E w \in Held, ok \in BOOLEAN : ProveTransaction(w, ok)
  \/ \E w \in Held, i \in InputIndexes : GetSighash(w, i)
  \/ \E w \in Held, i \in InputIndexes :
       DocOf(w) # NoDoc /\ \E sig \in SignaturesSign(w) : AppendSignature(w, i, sig)
  \/ \E w \in Held : Collect(w)

SpecSign == InitSign /\ [][NextSign]_vars

\* sig is a signature by input i's key over the sighash GetSighash returns for i
ValidOverSighash(doc, i, sig) ==
  /\ pczt_get_sighash(doc, i).code = Success
  /\ sig.msg = pczt_get_sighash(doc, i).val
  /\ sig.key = doc.ins[i + 1].pubkey
  /\ sig.nonce \in Nonces

\* C9: AppendSignature for an input of a live document succeeds exactly when
\* the signature is valid over that input's sighash for that input's key; any
\* other value fails with InvalidSignature and no document is returned.
C9_SignatureIntegrity ==
  /\ last.op = "AppendSignature"
  /\ WasLive(1)
  /\ last.pre[1] # NoDoc
  /\ last.idx < Len(last.pre[1].ins)
  => /\ last.err = "" <=> ValidOverSighash(last.pre[1], last.idx, last.sig)
     /\ last.err = "" => last.out # NULL /\ DocOf(last.out).sigs[last.idx + 1] = last.sig
     /\ last.err # "" =>
          /\ last.err = ErrorSignature
          /\ last.detail = "InvalidSignature"
          /\ last.out = NULL

C9_Witness ==
  /\ last.op = "AppendSignature"
  /\ WasLive(1)
  /\ last.pre[1] # NoDoc
  /\ Len(last.pre[1].ins) = 2
  /\ last.idx = 1
  /\ last.sig = Sign(last.pre[1].ins[2].pubkey, pczt_get_sighash(last.pre[1], 0).val, 1)
  /\ last.detail = "InvalidSignature"
  /\ last.out = NULL

\* the last call was a GetSighash or an AppendSignature on a live object
SignerStep ==
  /\ last.op \in {"GetSighash", "AppendSignature"}
  /\ WasLive(1)
  /\ last.pre[1] # NoDoc

Appended ==
  /\ last.op = "AppendSignature"
  /\ WasLive(1)
  /\ last.pre[1] # NoDoc
  /\ last.err = ""
  /\ last.out # NULL

\* C24: on success the document AppendSignature returns differs from the one
\* it was given only in the signature slot of input_index, which now holds
\* the signature: every other signature slot, all inputs, all outputs and
\* all actions with their proofs are as they were.
C24_AppendSignatureFrame ==
  Appended =>
    LET before == last.pre[1]
        after  == DocOf(last.out)
    IN /\ after # NoDoc
       /\ after.ins = before.ins
       /\ after.outs = before.outs
       /\ after.acts = before.acts
       /\ after.proved = before.proved
       /\ after.branch = before.branch
       /\ Len(after.sigs) = Len(before.sigs)
       /\ last.idx < Len(before.sigs)
       /\ after.sigs[last.idx + 1] = last.sig
       /\ \A j \in 1..Len(before.sigs) :
            j # last.idx + 1 => after.sigs[j] = before.sigs[j]

\* the second input is signed in a document whose first input is signed already
C24_Witness ==
  /\ Appended
  /\ last.idx = 1
  /\ last.pre[1].sigs[1] # NoSig
  /\ last.pre[1].sigs[2] = NoSig
  /\ DocOf(last.out).sigs[1] = last.pre[1].sigs[1]
  /\ DocOf(last.out).sigs[2] = last.sig
  /\ last.pre[1].acts # <<>>

(***************************************************************************)
(* The fee: CalculateFee called with every triple of counts up to          *)
(* MaxCount, in every order.                                               *)
(***************************************************************************)
Counts == 0..MaxCount

NextFee ==
  \E i \in Counts, o \in Counts, s \in Counts : CalculateFee(i, o, s)

SpecFee == Init /\ [][NextFee]_vars

\* one action per transparent input, per transparent output and per shielded output
SummedActions(shape) == shape[1] + shape[2] + shape[3]

\* the transparent side counts the larger of its inputs and outputs; shielded
\* outputs, when there are any, count at least two actions
PairedActions(shape) ==
  Max(shape[1], shape[2]) + (IF shape[3] = 0 THEN 0 ELSE Max(2, shape[3]))

C20_FeeMonotoneWithFloor ==
  [][/\ (last'.op = "CalculateFee" /\ last'.shape = <<0, 0, 0>>) =>
          (last'.fee = ZIP317_MARGINAL_FEE * ZIP317_GRACE_ACTIONS /\ last'.fee = 10000)
     /\ (/\ last.op = "CalculateFee"
         /\ last'.op = "CalculateFee"
         /\ \A k \in 1..3 : last.shape[k] <= last'.shape[k])
        => (last.fee <= last'.fee)]_vars

C20_Witness ==
  /\ last.op = "CalculateFee"
  /\ last.shape = <<3, 2, 1>>
  /\ last.fee > 10000

\* C21: the documented values: CalculateFee(1, 2, 0), one input, one payment
\* output and one change output, is the grace-action minimum 10000, and
\* CalculateFee(1, 1, 1) is 15000.
C21_DocumentedFees ==
  /\ (last.op = "CalculateFee" /\ last.shape = <<1, 2, 0>>) => (last.fee = 10000)
  /\ (last.op = "CalculateFee" /\ last.shape = <<1, 1, 1>>) => (last.fee = 15000)

C21_Witness ==
  /\ last.op = "CalculateFee"
  /\ last.shape = <<1, 1, 1>>
  /\ last.fee = 15000

(***************************************************************************)
(* The whole workflow of TestFullTransparentWorkflow: one input of         *)
(* 100,000,000, one payment of 50,000,000 to a transparent address.  The   *)
(* caller takes each step on the document the step before returned, signs  *)
(* the sighash GetSighash has just returned, and starts again when it      *)
(* holds no document; the collector takes spent objects at any time.       *)
(***************************************************************************)
InputAmountFlow   == 100000000
PaymentAmountFlow == InputAmountFlow \div 2
FeeFlow           == 10000

InitFlow ==
  /\ pczt = [w \in Wrappers |-> Unalloc]
  /\ heap = [h \in Handles |-> NoDoc]
  /\ inputs = <<Input1>>
  /\ request = [Payments |-> <<[address |-> "tA", amount |-> PaymentAmountFlow]>>,
                live |-> TRUE,
                payments |-> <<[address |-> "tA", amount |-> PaymentAmountFlow]>>,
                height |-> 2500000, mainnet |-> TRUE]
  /\ last = NoCall

\* the objects that still own a document, and the spent ones
Current == { w \in Held : pczt[w].handle # NULL }
Spent   == { w \in Held : pczt[w].handle = NULL }

\* signMessage(privateKey, sighash): the key of input 0 over the digest returned
SignedSighash == { Sign(inputs[1].pubkey, last.val, n) : n \in Nonces }

NextFlow ==
  \/ Current = {} /\ ProposeTransaction(inputs)
  \/ \E w \in Current, ok \in BOOLEAN :
       DocOf(w) # NoDoc /\ ~DocOf(w).proved /\ ProveTransaction(w, ok)
  \/ \E w \in Current :
       /\ DocOf(w) # NoDoc /\ DocOf(w).proved /\ DocOf(w).sigs[1] = NoSig
       /\ GetSighash(w, 0)
  \/ \E sig \in SignedSighash :
       /\ last.op = "GetSighash" /\ last.err = ""
       /\ AppendSignature(last.args[1], 0, sig)
  \/ \E w \in Current :
       DocOf(w) # NoDoc /\ DocOf(w).sigs[1] # NoSig /\ FinalizeAndExtract(w)
  \/ \E w \in Spent : Collect(w)

SpecFlow == InitFlow /\ [][NextFlow]_vars

FlowSteps ==
  {"ProposeTransaction", "ProveTransaction", "GetSighash", "AppendSignature",
   "FinalizeAndExtract"}

\* C22: with one input of 100,000,000 and one payment of 50,000,000, every
\* step of Propose, Prove, GetSighash(0), sign, AppendSignature(0),
\* FinalizeAndExtract succeeds, and the bytes extracted are not empty and
\* come from a document whose outputs, the payment of 50,000,000 and the
\* change of 49,990,000, add up with the fee of 10,000 to the input amount.
C22_EndToEnd ==
  /\ inputs[1].amount = 100000000
  /\ last.op \in FlowSteps => last.err = ""
  /\ last.op \in FlowSteps \ {"GetSighash", "FinalizeAndExtract"} => last.out # NULL
  /\ last.op = "GetSighash" => last.val # <<>>
  /\ last.op = "FinalizeAndExtract" =>
       /\ last.val # <<>>
       /\ last.val = TxBytes(last.pre[1])
       /\ Len(last.pre[1].outs) = 2
       /\ last.pre[1].outs[1].value = 50000000
       /\ last.pre[1].outs[2].value = 49990000
       /\ last.pre[1].acts = <<>>
       /\ SumValue(last.pre[1].outs) + 10000 = inputs[1].amount
       /\ pczt_calculate_fee(1, 2, 0) = FeeFlow

C22_Witness ==
  /\ last.op = "FinalizeAndExtract"
  /\ last.err = ""
  /\ last.val # <<>>
  /\ last.pre[1].sigs[1] = Sign(inputs[1].pubkey, Digest(last.pre[1], 0), 1)
  /\ SumValue(last.pre[1].outs) + FeeFlow = InputAmountFlow

(***************************************************************************)
(* The builder and what it leaves alone: proposals that fail in the        *)
(* wrapper, fail in the library and succeed, each followed by a            *)
(* verification against the request the proposal was made from.            *)
(***************************************************************************)
ScenariosFrame ==
  { [inputs |-> <<Input1>>,
     payments |-> <<[address |-> "tA", amount |-> 50000000]>>],
    [inputs |-> <<Input1, Input2>>,
     payments |-> <<[address |-> "tA", amount |-> 30000],
                    [address |-> "uS", amount |-> 20000]>>],
    [inputs |-> <<Input2>>,
     payments |-> <<[address |-> "tA", amount |-> 50000000]>>],
    [inputs |-> <<Input1>>,
     payments |-> <<[address |-> "tA", amount |-> 0]>>] }

InitFrame ==
  /\ pczt = [w \in Wrappers |-> Unalloc]
  /\ heap = [h \in Handles |-> NoDoc]
  /\ \E sc \in ScenariosFrame :
       /\ inputs = sc.inputs
       /\ request = [Payments |-> sc.payments, live |-> TRUE,
                     payments |-> sc.payments, height |-> 2500000, mainnet |-> TRUE]
  /\ last = NoCall

NextFrame ==
  \/ \E ins \in {inputs, <<>>} : ProposeTransaction(ins)
  \/ \E ca \in {"tB", "uS"} : ProposeTransactionWithChange(inputs, ca)
  \/ \E w \in Held, ca \in ChangeAddresses : VerifyBeforeSigning(w, request, ChangeFor(ca))
  \/ RequestFree
  \/ \E w \in Held : Collect(w)

SpecFrame == InitFrame /\ [][NextFrame]_vars

\* the document is one the builder makes from the caller's inputs and request,
\* with the change the verification expects
ProposedFrom(doc, expectedChange) ==
  \E ca \in ChangeAddresses :
    /\ ChangeFor(ca) = expectedChange
    /\ pczt_propose_transaction(serializeTransparentInputs(inputs), request, ca).code = Success
    /\ doc = pczt_propose_transaction(serializeTransparentInputs(inputs), request, ca).doc

\* C25: a ProposeTransaction or ProposeTransactionWithChange, whether it
\* returns a document or an error, leaves the caller's input list and the
\* request as they were, the request still live when it was; and a live
\* request verifies every document that was proposed from it.
C25_BuilderFrame ==
  /\ [][(last'.op = "ProposeTransaction") =>
          (inputs' = inputs /\ request' = request)]_vars
  /\ []((/\ last.op = "VerifyBeforeSigning"
         /\ WasLive(1)
         /\ request.live
         /\ ProposedFrom(last.pre[1], last.change))
        => (last.err = ""))

C25_Witness ==
  /\ last.op = "VerifyBeforeSigning"
  /\ WasLive(1)
  /\ request.live
  /\ ProposedFrom(last.pre[1], last.change)
  /\ last.native
  /\ last.err = ""
  /\ Cardinality(Held) = 2

(***************************************************************************)
(* Building:the caller makes a request from a list of payments and        *)
(* proposes a transaction that spends its inputs, with and without a       *)
(* change address.  The lists leave change, leave none, fall short of the  *)
(* fee by one unit, and are malformed.                                     *)
(***************************************************************************)
InputsBuild == { <<Input1>>, <<Input2>>, <<Input1, Input2>> }

PaymentsBuild ==
  { <<>>,
    <<[address |-> "tA", amount |-> 29999]>>,
    <<[address |-> "tA", amount |-> 30000]>>,
    <<[address |-> "tA", amount |-> 30001]>>,
    <<[address |-> "uS", amount |-> 20000]>>,
    <<[address |-> "tA", amount |-> 10000], [address |-> "uS", amount |-> 10000]>>,
    <<[address |-> "tA", amount |-> 50000000], [address |-> "tB", amount |-> 50000000]>>,
    <<[address |-> "tA", amount |-> 0]>>,
    <<[address |-> "tA", amount |-> 20000], [address |-> "uS", amount |-> 0]>> }

InitBuild ==
  /\ pczt = [w \in Wrappers |-> Unalloc]
  /\ heap = [h \in Handles |-> NoDoc]
  /\ inputs \in InputsBuild
  /\ request = NilRequest
  /\ last = NoCall

NextBuild ==
  \/ ~request.live /\ \E ps \in PaymentsBuild : NewTransactionRequest(ps)
  \/ \E ins \in {inputs, <<>>} : ProposeTransaction(ins)
  \/ \E ca \in {"tB", "uS"} : ProposeTransactionWithChange(inputs, ca)
  \/ RequestFree
  \/ \E w \in Wrappers : Collect(w)

SpecBuild == InitBuild /\ [][NextBuild]_vars

\* the payments of the caller's request that pay a transparent address, and
\* those that pay a shielded one
RECURSIVE PaymentsTo(_, _)
PaymentsTo(ps, addrs) ==
  IF ps = <<>> THEN <<>>
  ELSE (IF Head(ps).address \in addrs THEN <<Head(ps)>> ELSE <<>>)
         \o PaymentsTo(Tail(ps), addrs)

\* the fee of the shape the caller proposes: its inputs, one transparent
\* output per transparent payment and one for change, its shielded payments
ShapeFee ==
  5000 * Max(2, Max(Len(inputs), Len(PaymentsTo(request.Payments, Transparent)) + 1)
                  + (IF PaymentsTo(request.Payments, Shielded) = <<>> THEN 0
                     ELSE Max(2, Len(PaymentsTo(request.Payments, Shielded)))))

\* what the caller's inputs leave after the payments and the fee
Remainder == SumAmount(inputs) - SumAmount(request.Payments) - ShapeFee

Proposed == last.op = "ProposeTransaction" /\ last.err = "" /\ last.out # NULL

\* C16: a document ProposeTransaction returns spends the caller's inputs and
\* has one output per payment of the request, with the payment's recipient and
\* exactly its amount (a transparent output for a transparent payment, an
\* action for a shielded one); it has one more transparent output, the change,
\* of exactly inputs - payments - fee, exactly when that amount is above 0, and
\* none when it is 0; and the inputs equal the outputs plus the fee.
C16_BuilderChangeAndBalance ==
  Proposed =>
    LET doc == DocOf(last.out)
        tp  == PaymentsTo(request.Payments, Transparent)
        sp  == PaymentsTo(request.Payments, Shielded)
        n   == Len(tp)
    IN /\ doc.ins = inputs
       /\ Remainder >= 0
       /\ Len(doc.outs) = n + (IF Remainder > 0 THEN 1 ELSE 0)
       /\ \A i \in 1..n : /\ doc.outs[i].value = tp[i].amount
                           /\ doc.outs[i].script = AddrScript(tp[i].address)
       /\ Len(doc.acts) = Len(sp)
       /\ \A i \in 1..Len(sp) : /\ doc.acts[i].value = sp[i].amount
                                 /\ doc.acts[i].recipient = AddrCode(sp[i].address)
       /\ Remainder > 0 =>
            /\ doc.outs[n + 1].value = Remainder
            /\ doc.outs[n + 1].script = IF last.addr = "" THEN PubkeyScript(inputs[1].pubkey)
                                        ELSE AddrScript(last.addr)
       /\ SumAmount(inputs) = SumValue(doc.outs) + SumValue(doc.acts) + ShapeFee

C16_Witness ==
  /\ Proposed
  /\ last.addr = ""
  /\ Len(inputs) = 2
  /\ Remainder > 0
  /\ Len(DocOf(last.out).outs) = 3
  /\ DocOf(last.out).outs[3].value = Remainder

\* the last call handed the caller's inputs and a well-formed request to the
\* builder, with no change address or a transparent one
ProposedWellFormed ==
  /\ last.op = "ProposeTransaction"
  /\ last.native
  /\ request.Payments # <<>>
  /\ \A i \in 1..Len(request.Payments) :
       /\ request.Payments[i].amount > 0
       /\ request.Payments[i].address \in Transparent \cup Shielded
  /\ last.addr \in {""} \cup Transparent

\* C17: ProposeTransaction with a well-formed request whose payments plus the
\* fee exceed the inputs fails with InsufficientFunds and returns no document;
\* and a failing ProposeTransaction makes no object and no document.
C17_InsufficientFunds ==
  /\ [](ProposedWellFormed /\ Remainder < 0 =>
          /\ last.err = ErrorProposal
          /\ last.detail = "InsufficientFunds"
          /\ last.out = NULL)
  /\ [][(last'.op = "ProposeTransaction" /\ last'.err # "") =>
          (pczt' = pczt /\ heap' = heap)]_vars

C17_Witness ==
  /\ ProposedWellFormed
  /\ Remainder = -1
  /\ last.detail = "InsufficientFunds"
  /\ last.out = NULL

\* C18: NewTransactionRequest with no payments returns an error and no request,
\* without calling the library; and ProposeTransaction with a request that has
\* a payment of amount zero fails with InvalidRequest and returns no document.
C18_MalformedRequestRejected ==
  /\ last.op = "NewTransactionRequest" /\ last.req = <<>> =>
       last.err # "" /\ ~last.native /\ ~request.live
  /\ /\ last.op = "ProposeTransaction"
     /\ last.native
     /\ \E i \in 1..Len(request.Payments) : request.Payments[i].amount = 0
     => /\ last.err = ErrorProposal
        /\ last.detail = "InvalidRequest"
        /\ last.out = NULL

C18_Witness ==
  /\ last.op = "ProposeTransaction"
  /\ last.native
  /\ Len(request.Payments) = 2
  /\ request.Payments[2].amount = 0
  /\ last.detail = "InvalidRequest"
  /\ last.out = NULL

(***************************************************************************)
(* Combining and finalizing: a two-input document is proposed, proved,     *)
(* serialized and parsed into a copy (as it is, or with its first output   *)
(* raised by an intermediary); the documents are signed input by input,    *)
(* combined and finalized.                                                 *)
(***************************************************************************)
InitCombine ==
  /\ pczt = [w \in Wrappers |-> Unalloc]
  /\ heap = [h \in Handles |-> NoDoc]
  /\ inputs = <<Input1, Input2>>
  /\ request = [NilRequest EXCEPT
                  !.live = TRUE,
                  !.Payments = <<[address |-> "tA", amount |-> 30000],
                                 [address |-> "uS", amount |-> 20000]>>,
                  !.payments = <<[address |-> "tA", amount |-> 30000],
                                 [address |-> "uS", amount |-> 20000]>>]
  /\ last = NoCall

\* the bytes with the amount of the first payment raised by one unit
Tampered(bytes) ==
  [i \in 1..Len(bytes) |->
     IF bytes[i] = request.Payments[1].amount THEN bytes[i] + 1 ELSE bytes[i]]

\* the bytes SerializePCZT has just returned, as they are and tampered with
BytesCombine ==
  IF last.op = "SerializePCZT" /\ last.err = ""
  THEN {last.val, Tampered(last.val)} ELSE {}

\* the lists of one object and of two different objects the caller holds
ListsCombine ==
  { <<a>> : a \in Held } \cup { l \in { <<a, b>> : a \in Held, b \in Held } : l[1] # l[2] }

\* the document handed to the signers: proved and not yet signed
ForSigners(w) ==
  /\ DocOf(w) # NoDoc
  /\ DocOf(w).proved
  /\ \A i \in 1..Len(DocOf(w).sigs) : DocOf(w).sigs[i] = NoSig

\* the valid signatures of the inputs' keys: both of input 0's, one of the others'
SignaturesCombine(w, i) ==
  { ValidSignature(DocOf(w), i, n) : n \in IF i = 0 THEN Nonces ELSE {1} }

NextCombine ==
  \/ Held = {} /\ ProposeTransaction(inputs)
  \/ \E w \in Held : ProveTransaction(w, TRUE)
  \/ \E w \in Held : ForSigners(w) /\ SerializePCZT(w)
  \/ \E b \in BytesCombine : ParsePCZT(b)
  \/ \E w \in Held : \E i \in 0..(Len(inputs) - 1) :
       DocOf(w) # NoDoc /\ \E sig \in SignaturesCombine(w, i) : AppendSignature(w, i, sig)
  \/ \E l \in ListsCombine : Combine(l, TRUE)
  \/ \E w \in Held : FinalizeAndExtract(w)
  \/ \E w \in Held : Collect(w)

SpecCombine == InitCombine /\ [][NextCombine]_vars

\* the last call handed the documents of live objects to the combiner
CombinedLive ==
  /\ last.op = "Combine"
  /\ last.native
  /\ \A i \in Args : last.pre[i] # NoDoc

Filled(doc, k) == doc.sigs[k] # NoSig

\* two of the documents carry different signatures for one input
SlotClash ==
  \E i \in Args, j \in Args : \E k \in 1..Len(last.pre[i].sigs) :
    /\ k <= Len(last.pre[j].sigs)
    /\ Filled(last.pre[i], k) /\ Filled(last.pre[j], k)
    /\ last.pre[i].sigs[k] # last.pre[j].sigs[k]

\* one of the documents differs from the first in its inputs, its outputs,
\* its actions' recipients and values, or its branch
StructureDiffers ==
  \E i \in Args :
    \/ last.pre[i].ins # last.pre[1].ins
    \/ last.pre[i].outs # last.pre[1].outs
    \/ last.pre[i].branch # last.pre[1].branch
    \/ Len(last.pre[i].acts) # Len(last.pre[1].acts)
    \/ \E a \in 1..Len(last.pre[1].acts) :
         \/ last.pre[i].acts[a].recipient # last.pre[1].acts[a].recipient
         \/ last.pre[i].acts[a].value # last.pre[1].acts[a].value

\* the documents are proved copies of one document and no two of them carry a
\* signature for the same input
CombinedDisjoint ==
  /\ CombinedLive
  /\ ~StructureDiffers
  /\ \A i \in Args : last.pre[i].proved
  /\ \A i \in Args, j \in Args : \A k \in 1..Len(last.pre[1].sigs) :
       i # j => ~(Filled(last.pre[i], k) /\ Filled(last.pre[j], k))

\* the inputs of the document equal its outputs, its actions and the fee of
\* its shape
Balanced(doc) ==
  SumAmount(doc.ins) =
    SumValue(doc.outs) + SumValue(doc.acts)
      + 5000 * Max(2, PairedActions(<<Len(doc.ins), Len(doc.outs), Len(doc.acts)>>))

\* C13: Combine of proved copies of one document that carry signatures for
\* different inputs returns one document of the same structure whose filled
\* signature slots are exactly those filled in one of the copies, each with
\* that copy's signature; and when every slot of it is filled (and the value
\* of the document balances), FinalizeAndExtract of it returns the transaction.
C13_CombineUnion ==
  /\ [](CombinedDisjoint =>
          /\ last.err = ""
          /\ last.out # NULL
          /\ Unsigned(DocOf(last.out)) = Unsigned(last.pre[1])
          /\ DocOf(last.out).proved
          /\ \A k \in 1..Len(last.pre[1].sigs) :
               /\ Filled(DocOf(last.out), k) <=> \E i \in Args : Filled(last.pre[i], k)
               /\ \A i \in Args : Filled(last.pre[i], k) =>
                    DocOf(last.out).sigs[k] = last.pre[i].sigs[k])
  /\ [][(/\ CombinedDisjoint
          /\ last.err = ""
          /\ Balanced(last.pre[1])
          /\ \A k \in 1..Len(last.pre[1].sigs) : \E i \in Args : Filled(last.pre[i], k)
          /\ last'.op = "FinalizeAndExtract"
          /\ last'.args = <<last.out>>)
         => (last'.err = "" /\ last'.val # <<>>)]_vars

C13_Witness ==
  /\ CombinedDisjoint
  /\ Len(last.args) = 2
  /\ Balanced(last.pre[1])
  /\ Filled(last.pre[1], 1) /\ ~Filled(last.pre[1], 2)
  /\ ~Filled(last.pre[2], 1) /\ Filled(last.pre[2], 2)
  /\ last.out # NULL
  /\ Filled(DocOf(last.out), 1) /\ Filled(DocOf(last.out), 2)

FinalizedLive ==
  /\ last.op = "FinalizeAndExtract"
  /\ WasLive(1)
  /\ last.pre[1] # NoDoc

\* an input without a signature or an action without a proof
Unfilled(doc) ==
  \/ \E k \in 1..Len(doc.sigs) : ~Filled(doc, k)
  \/ \E a \in 1..Len(doc.acts) : ~doc.acts[a].proof

MaxInputs == 3     \* the longest list of inputs serialized

Byte(v) == v % 256

\* byte(v>>k) for a v below 2^31
ShiftedByte(v, k) == IF k >= 31 THEN 0 ELSE Byte(v \div (2 ^ k))

\* one input with its multi-byte fields written most significant byte first
serializeInputLE_BigEndian(input) ==
  input.Pubkey \o input.TxID
    \o [i \in 1..4 |-> ShiftedByte(input.Vout, 8 * (4 - i))]
    \o [i \in 1..8 |-> ShiftedByte(input.Amount, 8 * (8 - i))]
    \o <<ShiftedByte(U16(Len(input.ScriptPubKey)), 8), Byte(U16(Len(input.ScriptPubKey)))>>
    \o input.ScriptPubKey

\* the body of the loop: what one input appends to buf
serializeInputLE(input) ==
  input.Pubkey \o input.TxID
    \o [i \in 1..4 |-> ShiftedByte(input.Vout, 8 * (i - 1))]
    \o [i \in 1..8 |-> ShiftedByte(input.Amount, 8 * (i - 1))]
    \o <<Byte(U16(Len(input.ScriptPubKey))), ShiftedByte(U16(Len(input.ScriptPubKey)), 8)>>
    \o input.ScriptPubKey

RECURSIVE serializeInputListLE(_)
serializeInputListLE(ins) ==
  IF ins = <<>> THEN <<>>
  ELSE serializeInputLE(Head(ins)) \o serializeInputListLE(Tail(ins))

serializeTransparentInputsLE(ins) ==
  <<Byte(U16(Len(ins))), ShiftedByte(U16(Len(ins)), 8)>> \o serializeInputListLE(ins)

\* the call: the caller's list goes in, the buffer comes back
SerializeInputs(ins) ==
  /\ inputs' = ins
  /\ last' = [NoCall EXCEPT !.op = "serializeTransparentInputs",
                            !.val = serializeTransparentInputsLE(ins)]
  /\ UNCHANGED <<pczt, heap, request>>

\* the inputs serialized: compressed keys, transaction ids, output indexes and
\* amounts of one, two and four significant bytes, scripts of no byte, of one
\* byte, of a P2PKH script's 25 bytes and of more than 255 bytes; and scripts
\* at the limit of the two-byte length field and one byte beyond it
PubkeysEncode == { [i \in 1..33 |-> IF i = 1 THEN 2 ELSE b] : b \in {121, 255} }
TxIDsEncode   == { [i \in 1..32 |-> b] : b \in {0, 116} }
ScriptEncode(n) == [i \in 1..n |-> IF i = 1 THEN 118 ELSE IF i = n THEN 172 ELSE i % 256]

WireInput(k, t, v, a, n) ==
  [Pubkey |-> k, TxID |-> t, Vout |-> v, Amount |-> a, ScriptPubKey |-> ScriptEncode(n)]

InputsSmall ==
  { WireInput(k, t, v, a, n) :
      k \in PubkeysEncode, t \in TxIDsEncode, v \in {0, 16909060},
      a \in {1, 258, 100000000}, n \in {0, 1, 25, 300} }

InputsLong ==
  { WireInput([i \in 1..33 |-> 2], [i \in 1..32 |-> 0], 0, 0, n) :
      n \in {65535, 65536} }

InputsMany ==
  { WireInput([i \in 1..33 |-> 3], [i \in 1..32 |-> Byte(n)], n, 256 * n, n) : n \in {0, 25, 300} }

RECURSIVE ListsOf(_, _)
ListsOf(S, n) ==
  IF n = 0 THEN {<<>>}
  ELSE { <<a>> \o l : a \in S, l \in ListsOf(S, n - 1) }

InputsEncode ==
  {<<>>} \cup { <<a>> : a \in InputsSmall \cup InputsLong }
         \cup UNION { ListsOf(InputsMany, n) : n \in 2..MaxInputs }

InitEncode ==
  /\ pczt = [w \in Wrappers |-> Unalloc]
  /\ heap = [h \in Handles |-> NoDoc]
  /\ request = NilRequest
  /\ inputs = <<>>
  /\ last = NoCall

NextEncode == \E ins \in InputsEncode : SerializeInputs(ins)

SpecEncode == InitEncode /\ [][NextEncode]_vars

\* the number a run of bytes stands for, least significant byte first
RECURSIVE LittleEndian(_)
LittleEndian(bytes) ==
  IF bytes = <<>> THEN 0 ELSE Head(bytes) + 256 * LittleEndian(Tail(bytes))

\* where input k starts in the buffer: after the count and the inputs before it
RECURSIVE StartOf(_, _)
StartOf(ins, k) ==
  IF k = 1 THEN 2 ELSE StartOf(ins, k - 1) + 79 + Len(ins[k - 1].ScriptPubKey)

\* the buffer returned is the count and then, input by input in list order,
\* key, prior-tx id, output index, amount, script length and script
EncodedAsStated(ins, buf) ==
  /\ \A i \in 1..Len(buf) : buf[i] \in 0..255
  /\ Len(buf) = StartOf(ins, Len(ins) + 1)
  /\ LittleEndian(SubSeq(buf, 1, 2)) = Len(ins)
  /\ \A k \in 1..Len(ins) :
       LET at == StartOf(ins, k)
           n  == Len(ins[k].ScriptPubKey)
       IN /\ SubSeq(buf, at + 1, at + 33) = ins[k].Pubkey
          /\ SubSeq(buf, at + 34, at + 65) = ins[k].TxID
          /\ LittleEndian(SubSeq(buf, at + 66, at + 69)) = ins[k].Vout
          /\ LittleEndian(SubSeq(buf, at + 70, at + 73)) = ins[k].Amount
          /\ SubSeq(buf, at + 74, at + 77) = <<0, 0, 0, 0>>
          /\ LittleEndian(SubSeq(buf, at + 78, at + 79)) = n
          /\ SubSeq(buf, at + 80, at + 79 + n) = ins[k].ScriptPubKey

KeysAre33 == \A k \in 1..Len(inputs) : Len(inputs[k].Pubkey) = 33

BytesCopies ==
  IF last.op = "SerializePCZT" /\ last.err = "" THEN {last.val} ELSE {}

SignaturesCopies(w, i) == {ZeroSig, ValidSignature(DocOf(w), i, 1)}

NextCopies ==
  \/ Held = {} /\ ProposeTransaction(inputs)
  \/ \E w \in Held : ProveTransaction(w, TRUE)
  \/ \E w \in Held : ForSigners(w) /\ SerializePCZT(w)
  \/ \E b \in BytesCopies : ParsePCZT(b)
  \/ \E w \in Held : \E i \in 0..(Len(inputs) - 1) : DocOf(w) # NoDoc /\ GetSighash(w, i)
  \/ \E w \in Held : \E i \in 0..(Len(inputs) - 1) :
       DocOf(w) # NoDoc /\ \E sig \in SignaturesCopies(w, i) : AppendSignature(w, i, sig)
  \/ \E w \in Held : FinalizeAndExtract(w)
  \/ \E w \in Held : Free(w)
  \/ \E w \in Held : Collect(w)

SpecCopies == InitCombine /\ [][NextCopies]_vars

\* the object owns a document
Owning(v) == v \in Held /\ DocOf(v) # NoDoc

\* C27: the objects ParsePCZT returns for the same bytes share nothing: a
\* call that consumes, signs, frees or fails on some objects leaves every
\* other object that owns a document as it was, with the same handle, the
\* same document, the same serialization and the same sighashes.
C27_CopiesIndependent ==
  [][\A v \in Wrappers :
       (Owning(v) /\ v \notin Elems(last'.args)) =>
         (/\ pczt'[v] = pczt[v]
          /\ heap'[pczt[v].handle] = heap[pczt[v].handle]
          /\ pczt_serialize(heap'[pczt'[v].handle]) = pczt_serialize(heap[pczt[v].handle])
          /\ \A i \in 0..(Len(DocOf(v).ins) - 1) :
               pczt_get_sighash(heap'[pczt'[v].handle], i)
                 = pczt_get_sighash(heap[pczt[v].handle], i))]_vars

\* an object was consumed by a failed call while a copy of its document, parsed
\* from the same bytes, is still owned by another object
C27_Witness ==
  /\ last.op \in ConsumingOps
  /\ last.err # ""
  /\ Len(last.args) = 1
  /\ WasLive(1)
  /\ last.pre[1] # NoDoc
  /\ \E v \in Wrappers :
       /\ Owning(v)
       /\ v \notin Elems(last.args)
       /\ DocOf(v) = last.pre[1]
       /\ pczt_parse(pczt_serialize(DocOf(v)).val).doc = last.pre[1]

(***************************************************************************)
(* Readers: several goroutines call GetSighash, VerifyBeforeSigning and    *)
(* SerializePCZT on the same object at once.  A call is the check of the   *)
(* object, the native call and, when that answers an error code,           *)
(* wrapError, which asks the library for its last error message with a     *)
(* second native call, pczt_get_last_error.  The library keeps one last    *)
(* message for the goroutines that share a thread; each native call is     *)
(* one step.                                                               *)
(***************************************************************************)
MaxReaders == 2

Readers == 1..MaxReaders

Idle == [pc |-> "idle", call |-> NoCall]

RunningOf(g) == IF g \in DOMAIN last.running THEN last.running[g] ELSE Idle

\* goroutine g is now at pc with this call record
Goes(g, pc, call) ==
  [h \in Readers |-> IF h = g THEN [pc |-> pc, call |-> call] ELSE RunningOf(h)]

\* the first half of a reading call: the check and the native call
BeginRead(g, call, res) ==
  /\ RunningOf(g).pc = "idle"
  /\ UNCHANGED <<pczt, heap, request, inputs>>
  /\ IF IsInvalidPCZT(call.args[1])
     THEN last' = [last EXCEPT !.running = Goes(g, "done", GoError(call, ErrInvalidPCZT))]
     ELSE LET made == Native(call, <<pczt[call.args[1]].handle>>)
          IN IF res.code = Success
             THEN last' = [last EXCEPT
                             !.running = Goes(g, "done", [made EXCEPT !.val = res.val])]
             ELSE last' = [last EXCEPT
                             !.slot = res.detail,
                             !.running = Goes(g, "failed", [made EXCEPT !.err = res.code])]

\* wrapError: msg := getLastError()
getLastError(g) ==
  /\ RunningOf(g).pc = "failed"
  /\ UNCHANGED <<pczt, heap, request, inputs>>
  /\ last' = [last EXCEPT
                !.running = Goes(g, "done", [RunningOf(g).call EXCEPT !.detail = last.slot])]

\* the call returns to its caller: last shows what it returned
ReturnRead(g) ==
  /\ RunningOf(g).pc = "done"
  /\ UNCHANGED <<pczt, heap, request, inputs>>
  /\ last' = [RunningOf(g).call EXCEPT !.slot = last.slot,
                                       !.running = Goes(g, "idle", NoCall)]

ReadSighash(g, w, inputIndex) ==
  BeginRead(g, Call("GetSighash", <<w>>, inputIndex, NoSig),
            IF DocOf(w) = NoDoc THEN NullPointer ELSE pczt_get_sighash(DocOf(w), inputIndex))

ReadVerify(g, w, expectedChange) ==
  BeginRead(g, [Call("VerifyBeforeSigning", <<w>>, 0, NoSig)
                  EXCEPT !.req = request.payments, !.change = expectedChange],
            IF DocOf(w) = NoDoc THEN NullPointer
            ELSE pczt_verify_before_signing(DocOf(w), request, expectedChange))

ReadSerialize(g, w) ==
  BeginRead(g, Call("SerializePCZT", <<w>>, 0, NoSig),
            IF DocOf(w) = NoDoc THEN NullPointer ELSE pczt_serialize(DocOf(w)))

NoneRunning == \A g \in Readers : RunningOf(g).pc = "idle"

NextReaders ==
  \/ Held = {} /\ NoneRunning /\ last.op = "none" /\ ProposeTransaction(inputs)
  \/ \E g \in Readers, w \in Held, i \in {0, 999} : ReadSighash(g, w, i)
  \/ \E g \in Readers, w \in Held, c \in {CorrectChange, <<>>} : ReadVerify(g, w, c)
  \/ \E g \in Readers, w \in Held : ReadSerialize(g, w)
  \/ \E g \in Readers : getLastError(g)
  \/ \E g \in Readers : ReturnRead(g)

SpecReaders == InitVerify /\ [][NextReaders]_vars

\* what the library answers to the call when nothing else is running
Alone(call) ==
  CASE call.op = "GetSighash" -> pczt_get_sighash(call.pre[1], call.idx)
    [] call.op = "VerifyBeforeSigning" ->
         pczt_verify_before_signing(call.pre[1], request, call.change)
    [] call.op = "SerializePCZT" -> pczt_serialize(call.pre[1])

ReadReturned ==
  /\ last.op \in ReadingOps
  /\ last.running # <<>>
  /\ WasLive(1)
  /\ last.pre[1] # NoDoc

\* C28: GetSighash, VerifyBeforeSigning and SerializePCZT called by several
\* goroutines at once on the same live object each return what they return
\* when called alone, the error and its message or the value, however the
\* calls interleave, and the document is afterwards what it was.
C28_ConcurrentReaders ==
  ReadReturned =>
    /\ last.err = (IF Alone(last).code = Success THEN "" ELSE Alone(last).code)
    /\ last.detail = Alone(last).detail
    /\ last.val = Alone(last).val
    /\ DocOf(last.args[1]) = last.pre[1]

(***************************************************************************)
(* ZebraClient.WaitForBlocks: the polling loop that waits for a block      *)
(* height.  Time is counted in seconds since startTime.  The node is       *)
(* anything: a GetBlockchainInfo returns an error or any height, at once   *)
(* or after as long as the client's http timeout lets it take.             *)
(***************************************************************************)
MaxHeight  == 3            \* the greatest height the node reports
MaxSeconds == 160          \* the clock is not read beyond this many seconds

DefaultTimeoutMs == 120000
ClientTimeoutS   == 30

TargetHeights == {1, MaxHeight}
TimeoutsMs    == {0, 1500}
RpcSeconds    == {0, ClientTimeoutS}

Waiting == last.wait

\* timeoutMs as the loop uses it: if timeoutMs == 0 { timeoutMs = 120000 }
EffectiveTimeoutMs(timeoutMs) == IF timeoutMs = 0 THEN DefaultTimeoutMs ELSE timeoutMs

\* the call: startTime := time.Now(); lastHeight := 0; the loop begins
WaitForBlocks(targetHeight, timeoutMs) ==
  /\ Waiting.pc \in {"none", "returned"}
  /\ last' = [NoCall EXCEPT
                !.op = "WaitForBlocks",
                !.wait = [pc |-> "loop", targetHeight |-> targetHeight,
                          given |-> timeoutMs,
                          timeoutMs |-> EffectiveTimeoutMs(timeoutMs),
                          elapsed |-> 0, lastHeight |-> 0,
                          polled |-> FALSE, answered |-> FALSE,
                          ret |-> 0, err |-> ""]]
  /\ UNCHANGED <<pczt, heap, request, inputs>>

\* the time since startTime, seconds later
Later(elapsed, seconds) ==
  IF elapsed + seconds > MaxSeconds THEN MaxSeconds ELSE elapsed + seconds

WaitStep(w) == /\ last' = [last EXCEPT !.wait = w]
               /\ UNCHANGED <<pczt, heap, request, inputs>>

\* a loop that never looks at the clock
CheckTimeout_Never ==
  /\ Waiting.pc = "loop"
  /\ WaitStep([Waiting EXCEPT !.pc = "poll"])

\* if time.Since(startTime) > time.Duration(timeoutMs)*time.Millisecond { return 0, err }
CheckTimeout ==
  /\ Waiting.pc = "loop"
  /\ IF Waiting.elapsed * 1000 > Waiting.timeoutMs
     THEN WaitStep([Waiting EXCEPT !.pc = "returned", !.ret = 0, !.err = "timeout"])
     ELSE WaitStep([Waiting EXCEPT !.pc = "poll"])

\* info, err := c.GetBlockchainInfo() and what the loop does with the answer;
\* failed: the call returned an error; blocks: the height it returned otherwise
GetBlockchainInfo(failed, blocks, seconds) ==
  /\ Waiting.pc = "poll"
  /\ LET w == [Waiting EXCEPT !.elapsed = Later(@, seconds), !.polled = TRUE,
                              !.answered = IF failed THEN @ ELSE TRUE]
     IN IF failed THEN WaitStep([w EXCEPT !.pc = "sleep"])
        ELSE IF blocks >= w.targetHeight
        THEN WaitStep([w EXCEPT !.pc = "returned", !.ret = blocks])
        ELSE WaitStep([w EXCEPT !.pc = "sleep", !.lastHeight = blocks])

\* time.Sleep(1 * time.Second), and round the loop again
SleepSecond ==
  /\ Waiting.pc = "sleep"
  /\ WaitStep([Waiting EXCEPT !.pc = "loop", !.elapsed = Later(@, 1)])

NextWait ==
  \/ \E t \in TargetHeights, ms \in TimeoutsMs : WaitForBlocks(t, ms)
  \/ CheckTimeout
  \/ \E failed \in BOOLEAN, h \in 0..MaxHeight, d \in RpcSeconds : GetBlockchainInfo(failed, h, d)
  \/ SleepSecond

SpecWait == Init /\ [][NextWait]_vars

\* the goroutine keeps running: the clock is read, the sleep ends, and the
\* http client's timeout makes every GetBlockchainInfo return
LoopStep ==
  \/ CheckTimeout
  \/ \E failed \in BOOLEAN, h \in 0..MaxHeight, d \in RpcSeconds : GetBlockchainInfo(failed, h, d)
  \/ SleepSecond

SpecWaitFair == SpecWait /\ WF_vars(LoopStep)

WaitReturned == Waiting.pc = "returned"

\* C29: WaitForBlocks always returns: the height the node reported, when
\* that is at least targetHeight, or a timeout error, when more than the
\* timeout given (120000 ms when 0 is given) has passed since the start,
\* and that also when every GetBlockchainInfo has failed.
C29_WaitTerminates ==
  /\ [](WaitReturned =>
          \/ /\ Waiting.err = ""
             /\ Waiting.ret >= Waiting.targetHeight
             /\ Waiting.answered
          \/ /\ Waiting.err = "timeout"
             /\ Waiting.ret = 0
             /\ Waiting.elapsed * 1000 >
                  (IF Waiting.given = 0 THEN 120000 ELSE Waiting.given))
  /\ ((Waiting.pc # "none") ~> WaitReturned)
  /\ ((Waiting.pc = "loop" /\ ~Waiting.polled) ~>
        (WaitReturned /\ (~Waiting.answered => Waiting.err = "timeout")))

\* the default timeout ran out while every GetBlockchainInfo failed
C29_Witness ==
  /\ WaitReturned
  /\ Waiting.given = 0
  /\ Waiting.err = "timeout"
  /\ Waiting.polled
  /\ ~Waiting.answered
  /\ Waiting.elapsed > 120

(***************************************************************************)
(* Automatic cleanup.  The caller never calls Free: it drops its pointers, *)
(* and the collector runs the finalizers of the objects that have become   *)
(* unreachable.  An unreachable object can be passed to no operation.      *)
(* pczt_combine handed a nil entry frees the other entries, as its header  *)
(* states (it ALWAYS consumes ALL input handles, even on error).           *)
(***************************************************************************)
Unreachable == { w \in Wrappers : pczt[w].st = "dropped" }

\* the caller forgets its pointer to a *PCZT
Drop(w) ==
  /\ w \in Held
  /\ pczt' = [pczt EXCEPT ![w].st = "dropped"]
  /\ last' = Call("drop", <<w>>, 0, NoSig)
  /\ UNCHANGED <<heap, request, inputs>>

\* the finalizer newPCZT set, run by the collector on an unreachable object:
\*   if pczt.handle != nil { C.pczt_free(pczt.handle) }
\* Without a finalizer the collector just reclaims the object.
RunFinalizer(w) ==
  /\ w \in Unreachable
  /\ pczt' = [pczt EXCEPT ![w] = Unalloc]
  /\ UNCHANGED <<request, inputs>>
  /\ IF pczt[w].fin /\ pczt[w].handle # NULL
     THEN /\ heap' = Released(heap, <<pczt[w].handle>>)
          /\ last' = Native(Call("finalizer", <<w>>, 0, NoSig), <<pczt[w].handle>>)
     ELSE /\ UNCHANGED heap
          /\ last' = Call("finalizer", <<w>>, 0, NoSig)

\* The request object: st says whether the caller still points to it, live
\* whether it holds a request of the library that has not been freed.
InitCleanup ==
  /\ pczt = [w \in Wrappers |-> Unalloc]
  /\ heap = [h \in Handles |-> NoDoc]
  /\ inputs = <<Input1>>
  /\ \E payments \in { <<[address |-> "tA", amount |-> 30000],
                         [address |-> "uS", amount |-> 20000]>> } :
       request = [Payments |-> payments, live |-> TRUE, payments |-> payments,
                  height |-> 2500000, mainnet |-> TRUE, st |-> "held"]
  /\ last = NoCall

\* the caller forgets its pointer to the *TransactionRequest
RequestDrop ==
  /\ request.st = "held"
  /\ request' = [request EXCEPT !.st = "dropped"]
  /\ last' = Call("TransactionRequest.drop", <<>>, 0, NoSig)
  /\ UNCHANGED <<pczt, heap, inputs>>

\* the finalizer NewTransactionRequest set:
\*   if r.handle != nil { C.pczt_transaction_request_free(r.handle) }
RequestFinalizer ==
  /\ request.st = "dropped"
  /\ request' = [request EXCEPT !.st = "unalloc", !.live = FALSE]
  /\ last' = [Call("TransactionRequest.finalizer", <<>>, 0, NoSig)
                EXCEPT !.native = request.live]
  /\ UNCHANGED <<pczt, heap, inputs>>

\* one object, or two (the same one twice included)
ListsCleanup ==
  { <<a>> : a \in Held } \cup { <<a, b>> : a \in Held, b \in Held }

NextCleanup ==
  \/ request.st = "held" /\ ProposeTransaction(inputs)
  \/ \E w \in Held, ok \in BOOLEAN : ProveTransaction(w, ok)
  \/ \E w \in Held : ForSigners(w) /\ SerializePCZT(w)
  \/ \E b \in BytesCopies : ParsePCZT(b)
  \/ \E w \in Held : \E sig \in Signatures(w, 0) : AppendSignature(w, 0, sig)
  \/ \E l \in ListsCleanup : Combine(l, TRUE)
  \/ \E w \in Held : FinalizeAndExtract(w)
  \/ \E w \in Wrappers : Drop(w)
  \/ \E w \in Wrappers : RunFinalizer(w)
  \/ RequestDrop
  \/ RequestFinalizer

SpecCleanup == InitCleanup /\ [][NextCleanup]_vars

\* the collector eventually runs the finalizer of an unreachable object
SpecCleanupFair ==
  /\ SpecCleanup
  /\ \A w \in Wrappers : WF_vars(RunFinalizer(w))
  /\ WF_vars(RequestFinalizer)

\* the objects that hold handle x with their finalizer set
Owners(x) ==
  { w \in Wrappers : pczt[w].st # "unalloc" /\ pczt[w].handle = x /\ pczt[w].fin }

\* C30: without any call of Free, every handle obtained is released.  Every
\* document the library holds belongs to an object whose finalizer is set,
\* and so does the request; a handle leaves its object only by being handed
\* to the library, in a consuming call or in the finalizer's free; and once
\* an object is unreachable, its handle is released.
C30_AutomaticCleanup ==
  /\ [](/\ \A x \in Handles : heap[x] # NoDoc => Owners(x) # {}
        /\ request.live => request.st \in {"held", "dropped"})
  /\ [][\A w \in Wrappers :
          (pczt[w].handle # NULL /\ pczt'[w].handle # pczt[w].handle) =>
            (/\ last'.native
             /\ last'.op \in {"ProveTransaction", "AppendSignature",
                              "FinalizeAndExtract", "Combine", "finalizer"}
             /\ \E i \in 1..Len(last'.passed) : last'.passed[i] = pczt[w].handle)]_vars
  /\ \A w \in Wrappers : \A x \in Handles :
       (pczt[w].st = "dropped" /\ pczt[w].handle = x) ~> (heap[x] = NoDoc)
  /\ (request.st = "dropped") ~> (~request.live)

\* the collector has freed the document of an object the caller dropped, after
\* a consuming call released another, and has freed the request
C30_Witness ==
  /\ last.op = "finalizer"
  /\ last.native
  /\ \A x \in Handles : heap[x] = NoDoc
  /\ request.st = "unalloc"
  /\ \E w \in Wrappers : pczt[w].st = "held" /\ pczt[w].handle = NULL

(***************************************************************************)
(* What a failing call reports.                                            *)
(***************************************************************************)
\* the names ResultCode.String gives the codes of a failure
FailureCodes ==
  {ErrorNullPointer, ErrorProposal, ErrorProver, ErrorVerification, ErrorSighash,
   ErrorSignature, ErrorCombine, ErrorFinalization, ErrorParse}

\* C31: every failing call reports a ResultCode and a message: an error is
\* never returned without the two.
C31_CodeAndDetail ==
  last.err # "" => (last.err \in FailureCodes /\ last.detail # "")

(***************************************************************************)
(* Release.  The caller frees, consumes and drops objects in any order;    *)
(* frees counts the calls of pczt_transaction_request_free on the          *)
(* request's handle.                                                       *)
(***************************************************************************)
InitRelease ==
  /\ pczt = [w \in Wrappers |-> Unalloc]
  /\ heap = [h \in Handles |-> NoDoc]
  /\ inputs = <<Input1>>
  /\ request = [Payments |-> <<[address |-> "tA", amount |-> 30000]>>, live |-> TRUE,
                payments |-> <<[address |-> "tA", amount |-> 30000]>>,
                height |-> 2500000, mainnet |-> TRUE, st |-> "held", frees |-> 0]
  /\ last = NoCall

\* TransactionRequest.Free, on a request that holds a handle or not:
\*   if r.handle != nil { runtime.SetFinalizer(r, nil); C.pczt_transaction_request_free(r.handle); r.handle = nil }
TransactionRequestFree ==
  /\ request.st = "held"
  /\ UNCHANGED <<pczt, heap, inputs>>
  /\ IF request.live
     THEN /\ request' = [request EXCEPT !.live = FALSE, !.frees = @ + 1]
          /\ last' = [Call("TransactionRequest.Free", <<>>, 0, NoSig) EXCEPT !.native = TRUE]
     ELSE /\ UNCHANGED request
          /\ last' = Call("TransactionRequest.Free", <<>>, 0, NoSig)

NextRelease ==
  \/ request.st = "held" /\ ProposeTransaction(inputs)
  \/ \E w \in Held, ok \in BOOLEAN : ProveTransaction(w, ok)
  \/ \E w \in Held : \E sig \in Signatures(w, 0) : AppendSignature(w, 0, sig)
  \/ \E w \in Held : FinalizeAndExtract(w)
  \/ \E l \in ListsCleanup : Combine(l, TRUE)
  \/ \E w \in Held : Free(w)
  \/ \E w \in Wrappers : Drop(w)
  \/ \E w \in Wrappers : RunFinalizer(w)
  \/ TransactionRequestFree
  \/ RequestDrop
  \/ RequestFinalizer

SpecRelease == InitRelease /\ [][NextRelease]_vars

\* the objects that hold handle x
Holders(x) == { w \in Wrappers : pczt[w].st # "unalloc" /\ pczt[w].handle = x }

\* the last step handed handles to pczt_free or to a consuming native function
Releasing ==
  /\ last'.native
  /\ last'.op \in {"Free", "finalizer", "ProveTransaction", "AppendSignature",
                   "FinalizeAndExtract", "Combine"}

\* C32: no handle is released twice.  A handle given to pczt_free or to a
\* consuming native function points to a document the library still holds (it
\* has not been freed or consumed before) and belongs to one object only, which
\* no longer holds it afterwards; Free on an object without a handle calls
\* nothing and changes nothing; the request's handle is freed at most once.
C32_NoDoubleRelease ==
  /\ [][Releasing =>
          \A i \in 1..Len(last'.passed) :
            LET x == last'.passed[i]
            IN x # NULL =>
                 /\ heap[x] # NoDoc
                 /\ Cardinality(Holders(x)) = 1
                 /\ \A w \in Holders(x) : pczt'[w].handle # x]_vars
  /\ [][(last'.op = "Free" /\ pczt[last'.args[1]].handle = NULL) =>
          (~last'.native /\ pczt' = pczt /\ heap' = heap)]_vars
  /\ [][(last'.op = "TransactionRequest.Free" /\ ~request.live) =>
          (~last'.native /\ request' = request)]_vars
  /\ [][(last'.op = "TransactionRequest.finalizer" /\ last'.native) =>
          request.frees = 0]_vars
  /\ [](request.frees <= 1)

\* the request has been freed a second time, the caller holds an object that
\* Free or a consuming call has emptied, and the library holds no document
C32_Witness ==
  /\ last.op = "TransactionRequest.Free"
  /\ ~last.native
  /\ request.frees = 1
  /\ \E w \in Held : pczt[w].handle = NULL /\ ~pczt[w].fin
  /\ \A x \in Handles : heap[x] = NoDoc

\* C33: the handles Combine gives to pczt_combine are not nil and differ from
\* one another, whatever list has passed its validation.
C33_CombineHandles ==
  (last.op = "Combine" /\ last.native) =>
    /\ \A i \in 1..Len(last.passed) : last.passed[i] # NULL
    /\ \A i, j \in 1..Len(last.passed) : i # j => last.passed[i] # last.passed[j]

(***************************************************************************)
(* Consumers: several goroutines call consuming operations at once.  A     *)
(* call is the check of the object, consumeHandle - which reads the        *)
(* handle and then writes nil, with no lock - and the native call.  A      *)
(* native function handed a handle that has already been freed may answer  *)
(* anything.  Each goroutine makes one call; running keeps what it         *)
(* returned.                                                               *)
(***************************************************************************)
ConsumingCalls(w) ==
  { Call("ProveTransaction", <<w>>, 0, NoSig),
    Call("AppendSignature", <<w>>, 0, ZeroSig),
    Call("FinalizeAndExtract", <<w>>, 0, NoSig),
    Call("Combine", <<w>>, 0, NoSig) }

\* if pczt == nil || pczt.handle == nil { return nil, errors.New("invalid PCZT") }
CheckPCZT(g, call) ==
  /\ RunningOf(g).pc = "idle"
  /\ UNCHANGED <<pczt, heap, request, inputs>>
  /\ last' = [last EXCEPT !.running =
                IF IsInvalidPCZT(call.args[1])
                THEN Goes(g, "done", GoError(call, ErrInvalidPCZT))
                ELSE Goes(g, "checked", call)]

\* consumeHandle, reading: if p.handle == nil { return nil } ... h := p.handle
consumeHandleLoad(g) ==
  LET call == RunningOf(g).call
      h    == pczt[call.args[1]].handle
  IN /\ RunningOf(g).pc = "checked"
     /\ UNCHANGED <<pczt, heap, request, inputs>>
     /\ last' = [last EXCEPT !.running =
                   Goes(g, IF h = NULL THEN "consumed" ELSE "loaded",
                        [call EXCEPT !.passed = <<h>>])]

\* consumeHandle, writing: runtime.SetFinalizer(p, nil) ... p.handle = nil
consumeHandleStore(g) ==
  LET call == RunningOf(g).call
  IN /\ RunningOf(g).pc = "loaded"
     /\ pczt' = [pczt EXCEPT ![call.args[1]].fin = FALSE, ![call.args[1]].handle = NULL]
     /\ UNCHANGED <<heap, request, inputs>>
     /\ last' = [last EXCEPT !.running = Goes(g, "consumed", call)]

\* what the library answers to the consuming call on a document
Consumed(call, doc) ==
  CASE call.op = "ProveTransaction" -> pczt_prove_transaction(doc, TRUE)
    [] call.op = "AppendSignature" -> pczt_append_signature(doc, call.idx, call.sig)
    [] call.op = "FinalizeAndExtract" -> pczt_finalize_and_extract(doc)
    [] call.op = "Combine" -> pczt_combine(<<doc>>)

\* what the library answers to goroutine g's native call: an error for nil,
\* anything for a handle that points to no document any more
Answers(g) ==
  LET call == RunningOf(g).call
      h    == call.passed[1]
  IN IF RunningOf(g).pc # "consumed" THEN {}
     ELSE IF h = NULL THEN {NullPointer}
     ELSE IF HasDoc(heap, h) THEN {Consumed(call, heap[h])}
     ELSE {NullPointer, NativeFail(ErrorParse, "freed"), NativeVal(<<>>)}

\* the native call and what the operation makes of its answer
CallConsuming(g, res) ==
  LET call  == RunningOf(g).call
      h     == call.passed[1]
      heap1 == IF h = NULL THEN heap ELSE Released(heap, <<h>>)
      made  == wrapError([call EXCEPT !.native = TRUE, !.val = res.val], res)
      wraps == res.code = Success /\ res.doc # NoDoc
  IN /\ RunningOf(g).pc = "consumed"
     /\ UNCHANGED <<request, inputs>>
     /\ IF wraps
        THEN /\ FreeSlots # {}
             /\ pczt' = [pczt EXCEPT ![NewSlot] = newPCZT(NewHandle(heap1))]
             /\ heap' = [heap1 EXCEPT ![NewHandle(heap1)] = res.doc]
             /\ last' = [last EXCEPT !.running = Goes(g, "done", [made EXCEPT !.out = NewSlot])]
        ELSE /\ pczt' = pczt
             /\ heap' = heap1
             /\ last' = [last EXCEPT !.running = Goes(g, "done", made)]

NextConsumers ==
  \/ Held = {} /\ NoneRunning /\ last.op = "none" /\ ProposeTransaction(inputs)
  \/ \E g \in Readers, w \in Held : \E call \in ConsumingCalls(w) : CheckPCZT(g, call)
  \/ \E g \in Readers : consumeHandleLoad(g)
  \/ \E g \in Readers : consumeHandleStore(g)
  \/ \E g \in Readers : \E res \in Answers(g) : CallConsuming(g, res)

SpecConsumers == InitFlow /\ [][NextConsumers]_vars

\* C34: of two consuming calls that goroutines make on the same object, live
\* when each of them checked it, only one gets the handle and gives it to the
\* library; the other returns the error "invalid PCZT".
C34_ExclusiveConsumption ==
  \A g1, g2 \in Readers :
    LET c1 == RunningOf(g1).call
        c2 == RunningOf(g2).call
    IN (/\ g1 # g2
        /\ RunningOf(g1).pc = "done"
        /\ RunningOf(g2).pc = "done"
        /\ c1.args = c2.args
        /\ c1.native
        /\ c1.passed[1] # NULL) =>
         (~c2.native /\ c2.err = ErrInvalidPCZT)

\* C35: the message of an error a call returns is the message the library
\* recorded for that call, also when other goroutines make native calls
\* between the failing native call and wrapError's pczt_get_last_error.
C35_OwnErrorDetail ==
  (ReadReturned /\ last.native /\ last.err # "") => last.detail = Alone(last).detail

(***************************************************************************)
(* The sighash and the signature slots.                                    *)
(***************************************************************************)
\* the document with every signature slot empty: the base the signers start from
Base(doc) == [doc EXCEPT !.sigs = [i \in 1..Len(doc.sigs) |-> NoSig]]

NextTransport ==
  \/ Held = {} /\ ProposeTransaction(inputs)
  \/ \E w \in Held : ProveTransaction(w, TRUE)
  \/ \E w \in Held : DocOf(w) # NoDoc /\ SerializePCZT(w)
  \/ \E b \in BytesCopies : ParsePCZT(b)
  \/ \E w \in Held : \E i \in 0..(Len(inputs) - 1) : DocOf(w) # NoDoc /\ GetSighash(w, i)
  \/ \E w \in Held : \E i \in 0..(Len(inputs) - 1) :
       DocOf(w) # NoDoc /\ AppendSignature(w, i, ValidSignature(DocOf(w), i, 1))
  \/ \E w \in Held : Collect(w)

SpecTransport == InitCombine /\ [][NextTransport]_vars

\* the bytes SerializePCZT has just returned for a document are now parsed
Restoring ==
  /\ last.op = "SerializePCZT"
  /\ last.err = ""
  /\ last'.op = "ParsePCZT"
  /\ last'.val = last.val

RECURSIVE AppendInTurn(_, _, _)
AppendInTurn(doc, docs, m) ==
  IF doc = NoDoc \/ m > Len(docs) * Len(doc.sigs) THEN doc
  ELSE LET k   == ((m - 1) \div Len(doc.sigs)) + 1
           i   == ((m - 1) % Len(doc.sigs)) + 1
           sig == docs[k].sigs[i]
       IN AppendInTurn(IF sig = NoSig THEN doc
                       ELSE pczt_append_signature(doc, i - 1, sig).doc,
                       docs, m + 1)

\* the list in another order
Reordered(docs, p) == [i \in 1..Len(docs) |-> docs[p[i]]]

CountField(buf) == LittleEndian(SubSeq(buf, 1, 2))
ScriptLenField(ins, buf, k) ==
  LittleEndian(SubSeq(buf, StartOf(ins, k) + 78, StartOf(ins, k) + 79))

\* C39: in the buffer serializeTransparentInputs returns, the count field is
\* the number of input records that follow it and every script length field
\* is the number of script bytes that follow it, for every list of inputs.
C39_LengthFieldsConsistent ==
  (last.op = "serializeTransparentInputs" /\ KeysAre33) =>
    /\ Len(last.val) = StartOf(inputs, Len(inputs) + 1)
    /\ CountField(last.val) = Len(inputs)
    /\ \A k \in 1..Len(inputs) :
         /\ ScriptLenField(inputs, last.val, k) = Len(inputs[k].ScriptPubKey)
         /\ SubSeq(last.val, StartOf(inputs, k) + 80,
                   StartOf(inputs, k) + 79 + Len(inputs[k].ScriptPubKey))
              = inputs[k].ScriptPubKey

============================================================================
